---- MODULE Spec2Model ----
(***************************************************************************)
(* Order pacing engine (PerDiemInc/order-pacing).                          *)
(*                                                                         *)
(* One bucket: two Redis sorted sets (orders, busy periods), an engine     *)
(* with a timeframe mode, a time zone and a replaceable rule set, and the  *)
(* public operations add, getOrders, getBusyTimes, getOrdersStats,         *)
(* validateOrderTime and setRules.  Dates are epoch milliseconds, the      *)
(* *Seconds fields are epoch seconds.  calls holds the add calls that are  *)
(* in flight when add is followed store command by store command.          *)
(* engines and redis hold several engines, one per bucket, over the one    *)
(* keyspace of the store, when more than one bucket is followed.           *)
(***************************************************************************)
EXTENDS Integers, Sequences, FiniteSets, TLC

VARIABLES now, timeframeMode, timeZone, engineRules, orders, busyTimes, adds,
          last, calls, engines, redis

vars ==
    <<now, timeframeMode, timeZone, engineRules, orders, busyTimes, adds, last,
      calls, engines, redis>>

----------------------------------------------------------------------------
(* Program constants *)

ORDERS_RETENTION_SECONDS == 604800

CENTERED == "centered"
BEFORE_ONLY == "before_only"
AFTER_ONLY == "after_only"
BEFORE_AND_AFTER == "before_and_after"

TimeframeMode == {CENTERED, BEFORE_ONLY, AFTER_ONLY, BEFORE_AND_AFTER}

PERDIEM == "perdiem"
OTHER_CHANNEL == "other"

OrderSource == {PERDIEM, OTHER_CHANNEL}

(* An optional field is a sequence: <<>> when undefined, <<v>> when set. *)
None == <<>>
Some(v) == <<v>>
IsSet(x) == Len(x) > 0
Val(x) == x[1]

----------------------------------------------------------------------------
(* Bounds of the model *)

MaxAdds == 2
MaxTicks == 1

(* The instant the engine is constructed: day 8 after the epoch, 01:00 UTC *)
StartSeconds == 8 * 86400 + 3600
StartMs == StartSeconds * 1000
TickMs == 60 * 1000

----------------------------------------------------------------------------
(* utils *)

ToSeconds(ms) == ms \div 1000
SecondsToDate(seconds) == seconds * 1000
MinutesToSeconds(minutes) == minutes * 60
TimeStringToMinutes(timeString) == timeString[1] * 60 + timeString[2]

Max(a, b) == IF a >= b THEN a ELSE b

----------------------------------------------------------------------------
(* Redis sorted set: a set of [score, member] with unique members *)

ZAdd(zset, score, member) ==
    {e \in zset : e.member # member} \cup {[score |-> score, member |-> member]}

(* a range query that leaves out the upper bound *)
ZRangeByScore_ExclusiveMax(zset, min, max) ==
    {e \in zset : e.score >= min /\ e.score < max}

ZRangeByScore(zset, min, max) ==
    {e \in zset : e.score >= min /\ e.score <= max}

ZRemRangeByScore(zset, min, max) ==
    {e \in zset : ~(e.score >= min /\ e.score <= max)}

----------------------------------------------------------------------------
(* encoder: records are stored in their packed shape (short keys, source   *)
(* letters).  The Packr is configured with useTimestamp32, which packs a   *)
(* Date as whole epoch seconds.                                            *)

(* null (or undefined) in a field that holds a string, and the ?? of the   *)
(* encoder on such a field.  Numbers and arrays are never null here.       *)
Null == "(null)"
Coalesce(value, default) == IF value = Null THEN default ELSE value

PackTimestamp32(date) == date \div 1000
UnpackTimestamp32(ts) == ts * 1000

EncodeItem(item) ==
    [i |-> Coalesce(item.itemId, ""), c |-> Coalesce(item.categoryId, ""),
     q |-> item.quantity, tac |-> item.totalAmountCents]

DecodeItem(item) ==
    [itemId |-> item.i, categoryId |-> item.c, quantity |-> item.q,
     totalAmountCents |-> item.tac]

EncodeOrder(order) ==
    [id |-> Coalesce(order.orderId, ""),
     is |-> [k \in DOMAIN order.items |-> EncodeItem(order.items[k])],
     t |-> order.totalAmountCents,
     s |-> IF order.source = PERDIEM THEN "P" ELSE "O",
     ot |-> PackTimestamp32(order.orderTime),
     ots |-> order.orderTimeSeconds,
     cts |-> order.currentTimeSeconds]

DecodeOrder(buffer) ==
    [orderId |-> buffer.id,
     items |-> [k \in DOMAIN buffer.is |-> DecodeItem(buffer.is[k])],
     totalAmountCents |-> buffer.t,
     source |-> IF buffer.s = "P" THEN PERDIEM ELSE OTHER_CHANNEL,
     orderTime |-> UnpackTimestamp32(buffer.ot),
     orderTimeSeconds |-> buffer.ots,
     currentTimeSeconds |-> buffer.cts]

EncodeBusyTime(busyTime) ==
    [st |-> PackTimestamp32(busyTime.startTime),
     et |-> PackTimestamp32(busyTime.endTime),
     ots |-> busyTime.orderTimeSeconds,
     cts |-> busyTime.currentTimeSeconds,
     bts |-> busyTime.busyTimeSeconds,
     btc |-> [tac |-> busyTime.busyTimeContext.totalAmountCents,
              ti |-> busyTime.busyTimeContext.totalItems,
              to |-> busyTime.busyTimeContext.totalOrders,
              c |-> busyTime.busyTimeContext.categoryIds],
     t |-> [t |-> busyTime.threshold.type,
            v |-> busyTime.threshold.value,
            l |-> busyTime.threshold.limit,
            c |-> busyTime.threshold.categoryIds]]

DecodeBusyTime(buffer) ==
    [startTime |-> UnpackTimestamp32(buffer.st),
     endTime |-> UnpackTimestamp32(buffer.et),
     orderTimeSeconds |-> buffer.ots,
     currentTimeSeconds |-> buffer.cts,
     busyTimeSeconds |-> buffer.bts,
     busyTimeContext |-> [totalAmountCents |-> buffer.btc.tac,
                          totalItems |-> buffer.btc.ti,
                          totalOrders |-> buffer.btc.to,
                          categoryIds |-> buffer.btc.c],
     threshold |-> [type |-> buffer.t.t,
                    value |-> buffer.t.v,
                    limit |-> buffer.t.l,
                    categoryIds |-> buffer.t.c]]

----------------------------------------------------------------------------
(* Time zone conversion: a zone is a fixed offset in minutes from UTC *)

ToZonedTime(time, zone) == time + zone * 60000

UTC == 0

(* 1970-01-01 was a Thursday (4); 0 is Sunday *)
GetDay(zoned) == ((zoned \div 86400000) + 4) % 7
GetHours(zoned) == (zoned \div 3600000) % 24
GetMinutes(zoned) == (zoned \div 60000) % 60

----------------------------------------------------------------------------
(* EngineRule *)

(* an applyCheck that reads the day and the time of day in UTC *)
ApplyCheck_InUTC(rule, time, zone) ==
    LET dayOfWeek == GetDay(time)
        orderMinutes == GetHours(time) * 60 + GetMinutes(time)
    IN  IF Cardinality(rule.weekDays) > 0 /\ dayOfWeek \notin rule.weekDays
        THEN FALSE
        ELSE IF IsSet(rule.startTime)
                /\ orderMinutes < TimeStringToMinutes(Val(rule.startTime))
        THEN FALSE
        ELSE IF IsSet(rule.endTime)
                /\ orderMinutes > TimeStringToMinutes(Val(rule.endTime))
        THEN FALSE
        ELSE TRUE

ApplyCheck(rule, time, zone) ==
    LET zonedDate == ToZonedTime(time, zone)
        dayOfWeek == GetDay(zonedDate)
        orderMinutes == GetHours(zonedDate) * 60 + GetMinutes(zonedDate)
    IN  IF Cardinality(rule.weekDays) > 0 /\ dayOfWeek \notin rule.weekDays
        THEN FALSE
        ELSE IF IsSet(rule.startTime)
                /\ orderMinutes < TimeStringToMinutes(Val(rule.startTime))
        THEN FALSE
        ELSE IF IsSet(rule.endTime)
                /\ orderMinutes > TimeStringToMinutes(Val(rule.endTime))
        THEN FALSE
        ELSE TRUE

RECURSIVE SumSeq(_, _)
SumSeq(f(_), seq) ==
    IF seq = <<>> THEN 0 ELSE f(Head(seq)) + SumSeq(f, Tail(seq))

RECURSIVE SumSet(_, _)
SumSet(f(_), set) ==
    IF set = {} THEN 0
    ELSE LET x == CHOOSE y \in set : TRUE
         IN  f(x) + SumSet(f, set \ {x})

ItemQuantity(item) == item.quantity
ItemAmount(item) == item.totalAmountCents
OrderItemsCount(order) == SumSeq(ItemQuantity, order.items)
OrderAmount(order) == order.totalAmountCents
ItemCategories(order) ==
    {order.items[k].categoryId : k \in DOMAIN order.items} \ {""}

(* every item with a category matches, whatever the rule's categories *)
MatchingItems_AnyCategory(rule, order) ==
    SelectSeq(order.items, LAMBDA item : item.categoryId # "")

(* the items of an order that match the rule's categories *)
MatchingItems(rule, order) ==
    SelectSeq(order.items,
              LAMBDA item : item.categoryId # "" /\ item.categoryId \in rule.categoryIds)

HasMatchingCategory(rule, order) == MatchingItems(rule, order) # <<>>

NoThreshold == [met |-> FALSE]

(* a test order that puts the item limit first *)
ThresholdOrder_ItemsFirst == <<"items", "orders", "amount">>

(* the order in which thresholdCheck tests the limits *)
ThresholdOrder == <<"orders", "items", "amount">>

(* a comparison that needs the limit to be exceeded *)
Reaches_Strict(total, limit) == total > limit

(* a comparison the other way round: the limit is not yet exceeded *)
Reaches_AtMost(total, limit) == total <= limit

(* the comparison of a total with its limit *)
Reaches(total, limit) == total >= limit

(* a thresholdCheck whose context reports the totals it compared with the  *)
(* limits: those of the orders and items of the rule's categories          *)
ThresholdCheck_ScopedContext(rule, windowOrders) ==
    LET scoped == Cardinality(rule.categoryIds) > 0
        relevantOrders ==
            IF scoped
            THEN {o \in windowOrders : HasMatchingCategory(rule, o)}
            ELSE windowOrders
        MatchingQuantity(o) == SumSeq(ItemQuantity, MatchingItems(rule, o))
        MatchingAmount(o) == SumSeq(ItemAmount, MatchingItems(rule, o))
        totalOrders == Cardinality(relevantOrders)
        totalItems ==
            IF scoped THEN SumSet(MatchingQuantity, relevantOrders)
            ELSE SumSet(OrderItemsCount, windowOrders)
        totalAmount ==
            IF scoped THEN SumSet(MatchingAmount, relevantOrders)
            ELSE SumSet(OrderAmount, windowOrders)
        busyTimeContext ==
            [totalAmountCents |-> totalAmount,
             totalItems |-> totalItems,
             totalOrders |-> totalOrders,
             categoryIds |-> UNION {ItemCategories(o) : o \in relevantOrders}]
        Total(type) ==
            CASE type = "orders" -> totalOrders
              [] type = "items" -> totalItems
              [] type = "amount" -> totalAmount
        Limit(type) ==
            CASE type = "orders" -> rule.maxOrders
              [] type = "items" -> rule.maxItems
              [] type = "amount" -> rule.maxAmountCents
        Met(type) ==
            /\ IsSet(Limit(type))
            /\ Val(Limit(type)) > 0
            /\ Reaches(Total(type), Val(Limit(type)))
        met == SelectSeq(ThresholdOrder, Met)
    IN  IF met = <<>>
        THEN NoThreshold
        ELSE [met |-> TRUE,
              threshold |-> [type |-> Head(met), value |-> Total(Head(met)),
                             limit |-> Val(Limit(Head(met))),
                             categoryIds |-> rule.categoryIds],
              busyTimeContext |-> busyTimeContext]

(* windowOrders: the set of decoded orders of the window *)
ThresholdCheck(rule, windowOrders) ==
    LET allOrdersTotalItems == SumSet(OrderItemsCount, windowOrders)
        allOrdersTotalAmountCents == SumSet(OrderAmount, windowOrders)
        allOrdersCategoryIds == UNION {ItemCategories(o) : o \in windowOrders}
        scoped == Cardinality(rule.categoryIds) > 0
        relevantOrders ==
            IF scoped
            THEN {o \in windowOrders : HasMatchingCategory(rule, o)}
            ELSE windowOrders
        MatchingQuantity(o) == SumSeq(ItemQuantity, MatchingItems(rule, o))
        MatchingAmount(o) == SumSeq(ItemAmount, MatchingItems(rule, o))
        applicableTotalItems == SumSet(MatchingQuantity, relevantOrders)
        applicableTotalAmountCents == SumSet(MatchingAmount, relevantOrders)
        totalOrders == Cardinality(relevantOrders)
        totalItems == IF scoped THEN applicableTotalItems ELSE allOrdersTotalItems
        totalAmount ==
            IF scoped THEN applicableTotalAmountCents ELSE allOrdersTotalAmountCents
        busyTimeContext ==
            [totalAmountCents |-> allOrdersTotalAmountCents,
             totalItems |-> allOrdersTotalItems,
             totalOrders |-> Cardinality(windowOrders),
             categoryIds |-> allOrdersCategoryIds]
        Total(type) ==
            CASE type = "orders" -> totalOrders
              [] type = "items" -> totalItems
              [] type = "amount" -> totalAmount
        Limit(type) ==
            CASE type = "orders" -> rule.maxOrders
              [] type = "items" -> rule.maxItems
              [] type = "amount" -> rule.maxAmountCents
        Met(type) ==
            /\ IsSet(Limit(type))
            /\ Val(Limit(type)) > 0
            /\ Reaches(Total(type), Val(Limit(type)))
        met == SelectSeq(ThresholdOrder, Met)
    IN  IF met = <<>>
        THEN NoThreshold
        ELSE [met |-> TRUE,
              threshold |-> [type |-> Head(met), value |-> Total(Head(met)),
                             limit |-> Val(Limit(Head(met))),
                             categoryIds |-> rule.categoryIds],
              busyTimeContext |-> busyTimeContext]

----------------------------------------------------------------------------
(* rules/validators and EngineRules *)

ValidTimeString(timeString) ==
    timeString[1] \in 0..23 /\ timeString[2] \in 0..59

ValidateRule(rule) ==
    /\ rule.timeFrameMinutes > 0
    /\ rule.busyTimeMinutes > 0
    /\ \A day \in rule.weekDays : day >= 0 /\ day <= 6
    /\ IsSet(rule.startTime) => ValidTimeString(Val(rule.startTime))
    /\ IsSet(rule.endTime) => ValidTimeString(Val(rule.endTime))
    /\ (IsSet(rule.startTime) /\ IsSet(rule.endTime))
          => ~(TimeStringToMinutes(Val(rule.startTime))
                 >= TimeStringToMinutes(Val(rule.endTime)))
    /\ IsSet(rule.maxOrders) => ~(Val(rule.maxOrders) <= 0)
    /\ IsSet(rule.maxItems) => ~(Val(rule.maxItems) <= 0)
    /\ IsSet(rule.maxAmountCents) => ~(Val(rule.maxAmountCents) <= 0)
    /\ ~(~IsSet(rule.maxOrders) /\ ~IsSet(rule.maxItems)
          /\ ~IsSet(rule.maxAmountCents))

(* a constructor that takes an empty list, as the constructor did before   *)
(* the empty list was made an error                                        *)
EngineRulesAccepts_EmptyAllowed(rules) ==
    \A k \in DOMAIN rules : ValidateRule(rules[k])

(* a constructor that validates the first rule of the list only *)
EngineRulesAccepts_FirstRuleOnly(rules) ==
    /\ ~(Len(rules) = 0)
    /\ ValidateRule(rules[1])

(* new EngineRules(rules) returns normally *)
EngineRulesAccepts(rules) ==
    /\ ~(Len(rules) = 0)
    /\ \A k \in DOMAIN rules : ValidateRule(rules[k])

(* the message of the Error new EngineRules(rules) throws; the messages of *)
(* the rule validators are one message here                                *)
EngineRulesError(rules) ==
    IF Len(rules) = 0 THEN "At least one busy time rule must be provided"
    ELSE "rule validation"

HasRules(rules) == Len(rules) > 0

----------------------------------------------------------------------------
(* Engine *)

(* a before_and_after window that splits the frame between the two sides *)
CalculateTimeWindow_SplitBothSides(orderTimeSeconds, timeFrameSeconds, mode) ==
    CASE mode = CENTERED ->
           [start |-> orderTimeSeconds - (timeFrameSeconds \div 2),
            end |-> orderTimeSeconds + (timeFrameSeconds \div 2)]
      [] mode = BEFORE_ONLY ->
           [start |-> orderTimeSeconds - timeFrameSeconds,
            end |-> orderTimeSeconds]
      [] mode = AFTER_ONLY ->
           [start |-> orderTimeSeconds,
            end |-> orderTimeSeconds + timeFrameSeconds]
      [] mode = BEFORE_AND_AFTER ->
           [start |-> orderTimeSeconds - (timeFrameSeconds \div 2),
            end |-> orderTimeSeconds + (timeFrameSeconds \div 2)]

(* a before_only window that ends one second before the order *)
CalculateTimeWindow_BeforeOrder(orderTimeSeconds, timeFrameSeconds, mode) ==
    CASE mode = CENTERED ->
           [start |-> orderTimeSeconds - (timeFrameSeconds \div 2),
            end |-> orderTimeSeconds + (timeFrameSeconds \div 2)]
      [] mode = BEFORE_ONLY ->
           [start |-> orderTimeSeconds - timeFrameSeconds,
            end |-> orderTimeSeconds - 1]
      [] mode = AFTER_ONLY ->
           [start |-> orderTimeSeconds,
            end |-> orderTimeSeconds + timeFrameSeconds]
      [] mode = BEFORE_AND_AFTER ->
           [start |-> orderTimeSeconds - timeFrameSeconds,
            end |-> orderTimeSeconds + timeFrameSeconds]

CalculateTimeWindow(orderTimeSeconds, timeFrameSeconds, mode) ==
    CASE mode = CENTERED ->
           [start |-> orderTimeSeconds - (timeFrameSeconds \div 2),
            end |-> orderTimeSeconds + (timeFrameSeconds \div 2)]
      [] mode = BEFORE_ONLY ->
           [start |-> orderTimeSeconds - timeFrameSeconds,
            end |-> orderTimeSeconds]
      [] mode = AFTER_ONLY ->
           [start |-> orderTimeSeconds,
            end |-> orderTimeSeconds + timeFrameSeconds]
      [] mode = BEFORE_AND_AFTER ->
           [start |-> orderTimeSeconds - timeFrameSeconds,
            end |-> orderTimeSeconds + timeFrameSeconds]

(* a window query that keeps the orders of every source *)
GetOrdersInWindow_EverySource(zset, timeWindow) ==
    {DecodeOrder(e.member) :
       e \in ZRangeByScore(zset, timeWindow.start, timeWindow.end)}

(* the decoded own-channel orders of the window *)
GetOrdersInWindow(zset, timeWindow) ==
    {o \in {DecodeOrder(e.member) :
               e \in ZRangeByScore(zset, timeWindow.start, timeWindow.end)} :
        o.source = PERDIEM}

(* a prune of the orders that removes nothing *)
CleanOldOrders_KeepsAll(zset, currentTimeSeconds) == zset

(* a prune of the orders that forgets the retention, like the busy one *)
CleanOldOrders_UpToNow(zset, currentTimeSeconds) ==
    ZRemRangeByScore(zset, 0, currentTimeSeconds)

CleanOldOrders(zset, currentTimeSeconds) ==
    ZRemRangeByScore(zset, 0, currentTimeSeconds - ORDERS_RETENTION_SECONDS)

(* a prune that keeps the periods scored at the current second *)
CleanOldBusyTimes_BeforeNow(zset, currentTimeSeconds) ==
    {e \in zset : ~(e.score >= 0 /\ e.score < currentTimeSeconds)}

CleanOldBusyTimes(zset, currentTimeSeconds) ==
    ZRemRangeByScore(zset, 0, currentTimeSeconds)

(* a store that keeps one record per orderId: the record of an order that  *)
(* is added again is replaced                                              *)
AddOrder_ByOrderId(zset, order) ==
    ZAdd({e \in zset : e.member.id # order.orderId},
         order.orderTimeSeconds, EncodeOrder(order))

(* a store that keeps the orders of the own channel only *)
AddOrder_OwnChannelOnly(zset, order) ==
    IF order.source = PERDIEM
    THEN ZAdd(zset, order.orderTimeSeconds, EncodeOrder(order))
    ELSE zset

AddOrder(zset, order) == ZAdd(zset, order.orderTimeSeconds, EncodeOrder(order))

AddBusyTime(zset, busyTime) ==
    ZAdd(zset, busyTime.orderTimeSeconds, EncodeBusyTime(busyTime))

(* a busy period that always ends one busy time after ingestion *)
MakeBusyTime_FromIngestion(rule, orderTimeSeconds, currentTimeSeconds, thresholdInfo) ==
    LET busyTimeSeconds == MinutesToSeconds(rule.busyTimeMinutes)
        endTimeSeconds == currentTimeSeconds + busyTimeSeconds
        startTimeSeconds == endTimeSeconds - busyTimeSeconds
    IN  [startTime |-> SecondsToDate(startTimeSeconds),
         endTime |-> SecondsToDate(endTimeSeconds),
         orderTimeSeconds |-> orderTimeSeconds,
         currentTimeSeconds |-> currentTimeSeconds,
         busyTimeSeconds |-> busyTimeSeconds,
         threshold |-> thresholdInfo.threshold,
         busyTimeContext |-> thresholdInfo.busyTimeContext]

(* the busy period add builds for a met threshold *)
MakeBusyTime(rule, orderTimeSeconds, currentTimeSeconds, thresholdInfo) ==
    LET busyTimeSeconds == MinutesToSeconds(rule.busyTimeMinutes)
        endTimeSeconds ==
            Max(orderTimeSeconds, currentTimeSeconds + busyTimeSeconds)
        startTimeSeconds == endTimeSeconds - busyTimeSeconds
    IN  [startTime |-> SecondsToDate(startTimeSeconds),
         endTime |-> SecondsToDate(endTimeSeconds),
         orderTimeSeconds |-> orderTimeSeconds,
         currentTimeSeconds |-> currentTimeSeconds,
         busyTimeSeconds |-> busyTimeSeconds,
         threshold |-> thresholdInfo.threshold,
         busyTimeContext |-> thresholdInfo.busyTimeContext]

(* one iteration of the rule loop of add: what the iteration computed and  *)
(* the busy period it writes, if any                                       *)
RuleStep(rule, order, orderZset, mode, zone) ==
    LET applies == ApplyCheck(rule, order.orderTime, zone)
        timeWindow ==
            CalculateTimeWindow(order.orderTimeSeconds,
                                MinutesToSeconds(rule.timeFrameMinutes), mode)
        ordersInWindow == GetOrdersInWindow(orderZset, timeWindow)
        thresholdInfo == ThresholdCheck(rule, ordersInWindow)
    IN  IF ~applies
        THEN [applies |-> FALSE, timeWindow |-> None, ordersInWindow |-> {},
              thresholdInfo |-> NoThreshold, busyTime |-> None]
        ELSE [applies |-> TRUE, timeWindow |-> Some(timeWindow),
              ordersInWindow |-> ordersInWindow,
              thresholdInfo |-> thresholdInfo,
              busyTime |->
                  IF ~thresholdInfo.met THEN None
                  ELSE Some(MakeBusyTime(rule, order.orderTimeSeconds,
                                         order.currentTimeSeconds,
                                         thresholdInfo))]

(* the rule loop of add over rules[k..], threading the busy-period set *)
RECURSIVE RuleLoop(_, _, _, _, _, _, _)
RuleLoop(rules, k, order, orderZset, busyZset, mode, zone) ==
    IF k > Len(rules) THEN busyZset
    ELSE LET step == RuleStep(rules[k], order, orderZset, mode, zone)
             written == IF IsSet(step.busyTime)
                        THEN AddBusyTime(busyZset, Val(step.busyTime))
                        ELSE busyZset
         IN  RuleLoop(rules, k + 1, order, orderZset, written, mode, zone)

(* Array.sort by a key over the rows of a range query.  The rows arrive in *)
(* the store's order (by score, then by member bytes) and the sort is      *)
(* stable, so rows of equal key keep the order of their scores.  The byte  *)
(* order of members of equal score is not modelled: any order.             *)
RowBefore(a, b) ==
    \/ a.key < b.key
    \/ a.key = b.key /\ a.score < b.score

RECURSIVE SortedRows(_)
SortedRows(rows) ==
    IF rows = {} THEN {<<>>}
    ELSE UNION {{<<first>> \o rest : rest \in SortedRows(rows \ {first})} :
                  first \in {a \in rows : \A b \in rows : ~RowBefore(b, a)}}

(* the busy periods in the order the store keeps them, by score *)
SortedBusyTimes_StoreOrder(zset) ==
    LET rows == {[key |-> e.score, score |-> e.score, member |-> e.member] :
                   e \in zset}
    IN  {[k \in DOMAIN sorted |-> DecodeBusyTime(sorted[k].member)] :
           sorted \in SortedRows(rows)}

(* the possible results of getBusyTimes over a pruned store *)
SortedBusyTimes(zset) ==
    LET rows == {[key |-> ToSeconds(DecodeBusyTime(e.member).startTime),
                  score |-> e.score, member |-> e.member] : e \in zset}
    IN  {[k \in DOMAIN sorted |-> DecodeBusyTime(sorted[k].member)] :
           sorted \in SortedRows(rows)}

(* a getOrdersStats that counts own-channel orders only, as the window     *)
(* query of add does                                                       *)
SortedOrdersStats_OwnChannelOnly(zset, startTimeSeconds, endTimeSeconds) ==
    LET rows == {[key |-> ToSeconds(DecodeOrder(e.member).orderTime),
                  score |-> e.score, member |-> e.member] :
                   e \in {f \in ZRangeByScore(zset, startTimeSeconds,
                                              endTimeSeconds) :
                            DecodeOrder(f.member).source = PERDIEM}}
        Stat(order) == [orderId |-> order.orderId, orderTime |-> order.orderTime,
                        source |-> order.source]
    IN  {[k \in DOMAIN sorted |-> Stat(DecodeOrder(sorted[k].member))] :
           sorted \in SortedRows(rows)}

(* the possible results of getOrdersStats over a pruned store *)
SortedOrdersStats(zset, startTimeSeconds, endTimeSeconds) ==
    LET rows == {[key |-> ToSeconds(DecodeOrder(e.member).orderTime),
                  score |-> e.score, member |-> e.member] :
                   e \in ZRangeByScore(zset, startTimeSeconds, endTimeSeconds)}
        Stat(order) == [orderId |-> order.orderId, orderTime |-> order.orderTime,
                        source |-> order.source]
    IN  {[k \in DOMAIN sorted |-> Stat(DecodeOrder(sorted[k].member))] :
           sorted \in SortedRows(rows)}

(* a sweep that takes a busy period in only when the instant is after its  *)
(* start                                                                   *)
RECURSIVE WaitSweep_ExclusiveStart(_, _, _, _)
WaitSweep_ExclusiveStart(sortedBusyTimes, k, orderTimeSeconds, waitPeriodSeconds) ==
    IF k > Len(sortedBusyTimes) THEN waitPeriodSeconds
    ELSE LET startTimeSeconds == ToSeconds(sortedBusyTimes[k].startTime)
             endTimeSeconds == ToSeconds(sortedBusyTimes[k].endTime)
             orderTimeSecondsWithOffset == orderTimeSeconds + waitPeriodSeconds
         IN  IF /\ orderTimeSecondsWithOffset > startTimeSeconds
                /\ orderTimeSecondsWithOffset <= endTimeSeconds
             THEN WaitSweep_ExclusiveStart(sortedBusyTimes, k + 1,
                                           orderTimeSeconds,
                                           endTimeSeconds + 1 - orderTimeSeconds)
             ELSE waitPeriodSeconds

(* a sweep that waits until the end of a busy period, not one second past  *)
(* it                                                                      *)
RECURSIVE WaitSweep_UntilEnd(_, _, _, _)
WaitSweep_UntilEnd(sortedBusyTimes, k, orderTimeSeconds, waitPeriodSeconds) ==
    IF k > Len(sortedBusyTimes) THEN waitPeriodSeconds
    ELSE LET startTimeSeconds == ToSeconds(sortedBusyTimes[k].startTime)
             endTimeSeconds == ToSeconds(sortedBusyTimes[k].endTime)
             orderTimeSecondsWithOffset == orderTimeSeconds + waitPeriodSeconds
         IN  IF /\ orderTimeSecondsWithOffset >= startTimeSeconds
                /\ orderTimeSecondsWithOffset <= endTimeSeconds
             THEN WaitSweep_UntilEnd(sortedBusyTimes, k + 1, orderTimeSeconds,
                                     endTimeSeconds - orderTimeSeconds)
             ELSE waitPeriodSeconds

(* the sweep of validateOrderTime over busyTimes[k..] *)
RECURSIVE WaitSweep(_, _, _, _)
WaitSweep(sortedBusyTimes, k, orderTimeSeconds, waitPeriodSeconds) ==
    IF k > Len(sortedBusyTimes) THEN waitPeriodSeconds
    ELSE LET startTimeSeconds == ToSeconds(sortedBusyTimes[k].startTime)
             endTimeSeconds == ToSeconds(sortedBusyTimes[k].endTime)
             orderTimeSecondsWithOffset == orderTimeSeconds + waitPeriodSeconds
         IN  IF /\ orderTimeSecondsWithOffset >= startTimeSeconds
                /\ orderTimeSecondsWithOffset <= endTimeSeconds
             THEN WaitSweep(sortedBusyTimes, k + 1, orderTimeSeconds,
                            endTimeSeconds + 1 - orderTimeSeconds)
             ELSE waitPeriodSeconds

----------------------------------------------------------------------------
(* Inputs *)

Item(itemId, categoryId, quantity, totalAmountCents) ==
    [itemId |-> itemId, categoryId |-> categoryId, quantity |-> quantity,
     totalAmountCents |-> totalAmountCents]

PizzaItem == Item("i1", "pizza", 2, 4)
BurgerItem == Item("i2", "burger", 1, 3)

InputOrder(orderId, items, totalAmountCents, source, orderTime) ==
    [orderId |-> orderId, items |-> items, totalAmountCents |-> totalAmountCents,
     source |-> source, orderTime |-> orderTime]

(* order times: whole minutes around the start instant, and one instant    *)
(* that is not a whole second                                              *)
OrderTimes == {StartMs + k * 60000 : k \in -2..2}

InputOrders ==
    {InputOrder("a", <<PizzaItem>>, 5, PERDIEM, time) : time \in OrderTimes}
    \cup {InputOrder("b", <<BurgerItem>>, 3, PERDIEM, time) :
            time \in {StartMs - 60000, StartMs}}
    \cup {InputOrder("m", <<BurgerItem, PizzaItem>>, 8, PERDIEM, time) :
            time \in {StartMs + 500, StartMs + 60000}}
    \cup {InputOrder("d", <<PizzaItem, BurgerItem>>, 7, OTHER_CHANNEL, time) :
            time \in {StartMs, StartMs + 60000}}

Rule(ruleId, timeFrameMinutes, busyTimeMinutes, categoryIds, weekDays, startTime, endTime, maxOrders, maxItems, maxAmountCents) ==
    [ruleId |-> ruleId, timeFrameMinutes |-> timeFrameMinutes,
     busyTimeMinutes |-> busyTimeMinutes, categoryIds |-> categoryIds,
     weekDays |-> weekDays, startTime |-> startTime, endTime |-> endTime,
     maxOrders |-> maxOrders, maxItems |-> maxItems,
     maxAmountCents |-> maxAmountCents]

RuleOrders == Rule("orders", 2, 1, {}, {}, None, None, Some(2), None, None)
RuleAll == Rule("all", 2, 1, {}, {}, None, None, Some(2), Some(3), Some(5))
RulePizza ==
    Rule("pizza", 2, 2, {"pizza"}, {}, None, None, None, Some(4), Some(4))
RuleFriday ==
    Rule("friday", 1, 1, {}, {5}, Some(<<1, 0>>), Some(<<1, 1>>),
         Some(1), None, None)
RuleNoFrame == Rule("bad", 0, 1, {}, {}, None, None, Some(1), None, None)

RuleLists ==
    {<<RuleOrders, RulePizza>>, <<RuleFriday, RuleAll>>, <<>>, <<RuleNoFrame>>}

(* instants asked of validateOrderTime *)
Instants == {StartMs, StartMs + 60000, StartMs + 90000}

(* ranges asked of getOrdersStats *)
StatsRanges == {<<StartMs - 60000, StartMs + 500>>, <<StartMs, StartMs + 120000>>}

----------------------------------------------------------------------------
(* State machine *)

Result(op) ==
    [op |-> op, threw |-> FALSE, order |-> None, trace |-> <<>>,
     t |-> 0, wait |-> 0, result |-> <<>>, pruned |-> {}, repeated |-> FALSE,
     message |-> ""]

(* new Engine({bucket, redis, timeframeMode?}): the mode parameter is      *)
(* optional; the time zone is left at its default                          *)
Init ==
    \E param \in {None} \cup {Some(mode) : mode \in TimeframeMode} :
        /\ now = StartMs
        /\ timeframeMode = IF IsSet(param) THEN Val(param) ELSE BEFORE_ONLY
        /\ timeZone = UTC
        /\ engineRules = [defined |-> FALSE, rules |-> <<>>]
        /\ orders = {}
        /\ busyTimes = {}
        /\ adds = 0
        /\ last = [Result("new") EXCEPT !.result = param]
        /\ calls = <<>>
        /\ engines = <<>>
        /\ redis = <<>>

(* the clock advances *)
Tick ==
    /\ now < StartMs + MaxTicks * TickMs
    /\ now' = now + TickMs
    /\ last' = Result("tick")
    /\ UNCHANGED <<timeframeMode, timeZone, engineRules, orders, busyTimes, adds,
                   calls,
                   engines, redis>>

(* a setRules that validates and takes over the rules one by one, into the *)
(* rule set that is in effect                                              *)
SetRules_RuleByRule(rules) ==
    LET valid == {n \in 0..Len(rules) :
                    \A k \in 1..n : ValidateRule(rules[k])}
        prefix == SubSeq(rules, 1, CHOOSE n \in valid : \A m \in valid : m <= n)
    IN  /\ IF EngineRulesAccepts(rules)
           THEN /\ engineRules' = [defined |-> TRUE, rules |-> rules]
                /\ last' = [Result("setRules") EXCEPT !.result = rules]
           ELSE /\ engineRules' =
                     [defined |-> TRUE, rules |-> engineRules.rules \o prefix]
                /\ last' = [Result("setRules") EXCEPT
                              !.threw = TRUE, !.result = rules,
                              !.message = EngineRulesError(rules)]
        /\ UNCHANGED <<now, timeframeMode, timeZone, orders, busyTimes, adds,
                       calls, engines, redis>>

SetRules(rules) ==
    /\ IF EngineRulesAccepts(rules)
       THEN /\ engineRules' = [defined |-> TRUE, rules |-> rules]
            /\ last' = [Result("setRules") EXCEPT !.result = rules]
       ELSE /\ engineRules' = engineRules
            /\ last' = [Result("setRules") EXCEPT
                          !.threw = TRUE, !.result = rules,
                          !.message = EngineRulesError(rules)]
    /\ UNCHANGED <<now, timeframeMode, timeZone, orders, busyTimes, adds,
                   calls,
                   engines, redis>>

(* an add that runs its rules for the orders of every source *)
AddUpTo_RulesForEverySource(inputOrder, maxAdds) ==
    LET orderTimeSeconds == ToSeconds(inputOrder.orderTime)
        currentTimeSeconds == ToSeconds(now)
        cleanOrders == CleanOldOrders(orders, currentTimeSeconds)
        cleanBusyTimes == CleanOldBusyTimes(busyTimes, currentTimeSeconds)
        order == [orderId |-> inputOrder.orderId, items |-> inputOrder.items,
                  totalAmountCents |-> inputOrder.totalAmountCents,
                  source |-> inputOrder.source,
                  orderTime |-> inputOrder.orderTime,
                  orderTimeSeconds |-> orderTimeSeconds,
                  currentTimeSeconds |-> currentTimeSeconds]
        storedOrders == AddOrder(cleanOrders, order)
        skip == \/ ~engineRules.defined
                \/ ~HasRules(engineRules.rules)
    IN  /\ adds < maxAdds
        /\ adds' = adds + 1
        /\ orders' = storedOrders
        /\ busyTimes' =
             IF skip THEN cleanBusyTimes
             ELSE RuleLoop(engineRules.rules, 1, order, storedOrders,
                           cleanBusyTimes, timeframeMode, timeZone)
        /\ last' =
             [Result("add") EXCEPT
                !.order = Some(order),
                !.trace =
                    IF skip THEN <<>>
                    ELSE [k \in DOMAIN engineRules.rules |->
                            RuleStep(engineRules.rules[k], order, storedOrders,
                                     timeframeMode, timeZone)]]
        /\ UNCHANGED <<now, timeframeMode, timeZone, engineRules,
                       calls,
                   engines, redis>>

(* add(inputOrder), while fewer than maxAdds adds were made *)
AddUpTo(inputOrder, maxAdds) ==
    LET orderTimeSeconds == ToSeconds(inputOrder.orderTime)
        currentTimeSeconds == ToSeconds(now)
        cleanOrders == CleanOldOrders(orders, currentTimeSeconds)
        cleanBusyTimes == CleanOldBusyTimes(busyTimes, currentTimeSeconds)
        order == [orderId |-> inputOrder.orderId, items |-> inputOrder.items,
                  totalAmountCents |-> inputOrder.totalAmountCents,
                  source |-> inputOrder.source,
                  orderTime |-> inputOrder.orderTime,
                  orderTimeSeconds |-> orderTimeSeconds,
                  currentTimeSeconds |-> currentTimeSeconds]
        storedOrders == AddOrder(cleanOrders, order)
        skip == \/ ~engineRules.defined
                \/ ~HasRules(engineRules.rules)
                \/ order.source # PERDIEM
    IN  /\ adds < maxAdds
        /\ adds' = adds + 1
        /\ orders' = storedOrders
        /\ busyTimes' =
             IF skip THEN cleanBusyTimes
             ELSE RuleLoop(engineRules.rules, 1, order, storedOrders,
                           cleanBusyTimes, timeframeMode, timeZone)
        /\ last' =
             [Result("add") EXCEPT
                !.order = Some(order),
                !.trace =
                    IF skip THEN <<>>
                    ELSE [k \in DOMAIN engineRules.rules |->
                            RuleStep(engineRules.rules[k], order, storedOrders,
                                     timeframeMode, timeZone)]]
        /\ UNCHANGED <<now, timeframeMode, timeZone, engineRules,
                       calls,
                   engines, redis>>

Add(inputOrder) == AddUpTo(inputOrder, MaxAdds)

GetBusyTimes ==
    LET currentTimeSeconds == ToSeconds(now)
        cleanBusyTimes == CleanOldBusyTimes(busyTimes, currentTimeSeconds)
    IN  /\ busyTimes' = cleanBusyTimes
        /\ \E sorted \in SortedBusyTimes(cleanBusyTimes) :
               last' = [Result("getBusyTimes") EXCEPT
                          !.result = sorted,
                          !.pruned = busyTimes \ cleanBusyTimes]
        /\ UNCHANGED <<now, timeframeMode, timeZone, engineRules, orders, adds,
                       calls,
                   engines, redis>>

ValidateOrderTime(orderTime) ==
    LET orderTimeSeconds == ToSeconds(orderTime)
        currentTimeSeconds == ToSeconds(now)
        cleanBusyTimes == CleanOldBusyTimes(busyTimes, currentTimeSeconds)
    IN  /\ busyTimes' = cleanBusyTimes
        /\ \E sorted \in SortedBusyTimes(cleanBusyTimes) :
               last' = [Result("validateOrderTime") EXCEPT
                          !.t = orderTimeSeconds,
                          !.wait = WaitSweep(sorted, 1, orderTimeSeconds, 0),
                          !.result = sorted,
                          !.pruned = busyTimes \ cleanBusyTimes]
        /\ UNCHANGED <<now, timeframeMode, timeZone, engineRules, orders, adds,
                       calls,
                   engines, redis>>

(* a getOrders that prunes both streams, as add does *)
GetOrders_PrunesBothStreams ==
    LET currentTimeSeconds == ToSeconds(now)
        cleanOrders == CleanOldOrders(orders, currentTimeSeconds)
    IN  /\ orders' = cleanOrders
        /\ busyTimes' = CleanOldBusyTimes(busyTimes, currentTimeSeconds)
        /\ last' = [Result("getOrders") EXCEPT
                      !.result = {DecodeOrder(e.member) : e \in cleanOrders},
                      !.repeated = (last.op = "getOrders")]
        /\ UNCHANGED <<now, timeframeMode, timeZone, engineRules, adds,
                       calls, engines, redis>>

GetOrders ==
    LET currentTimeSeconds == ToSeconds(now)
        cleanOrders == CleanOldOrders(orders, currentTimeSeconds)
    IN  /\ orders' = cleanOrders
        /\ last' = [Result("getOrders") EXCEPT
                      !.result = {DecodeOrder(e.member) : e \in cleanOrders},
                      !.repeated = (last.op = "getOrders")]
        /\ UNCHANGED <<now, timeframeMode, timeZone, engineRules, busyTimes, adds,
                       calls,
                   engines, redis>>

GetOrdersStats(startTime, endTime) ==
    LET startTimeSeconds == ToSeconds(startTime)
        endTimeSeconds == ToSeconds(endTime)
        currentTimeSeconds == ToSeconds(now)
        cleanOrders == CleanOldOrders(orders, currentTimeSeconds)
    IN  /\ orders' = cleanOrders
        /\ \E sorted \in SortedOrdersStats(cleanOrders, startTimeSeconds,
                                           endTimeSeconds) :
               last' = [Result("getOrdersStats") EXCEPT
                          !.t = startTimeSeconds, !.wait = endTimeSeconds,
                          !.result = sorted]
        /\ UNCHANGED <<now, timeframeMode, timeZone, engineRules, busyTimes, adds,
                       calls,
                   engines, redis>>

Next ==
    \/ Tick
    \/ \E rules \in RuleLists : SetRules(rules)
    \/ \E inputOrder \in InputOrders : Add(inputOrder)
    \/ GetBusyTimes
    \/ \E orderTime \in Instants : ValidateOrderTime(orderTime)
    \/ GetOrders
    \/ \E range \in StatsRanges : GetOrdersStats(range[1], range[2])

Spec == Init /\ [][Next]_vars

----------------------------------------------------------------------------
(* The same operations over a store that ages: orders at the edge of the   *)
(* retention, orders further ahead of the clock, rule lists whose rules    *)
(* trigger on every own-channel order, and rule lists with an invalid rule *)

RetentionEdgeMs == StartMs - ORDERS_RETENTION_SECONDS * 1000

AgedOrders ==
    {InputOrder("o", <<PizzaItem>>, 5, PERDIEM, time) :
        time \in {RetentionEdgeMs - 1000, RetentionEdgeMs,
                  RetentionEdgeMs + TickMs}}

AheadOrders ==
    {InputOrder("b", <<BurgerItem>>, 3, PERDIEM, StartMs + 60000),
     InputOrder("a", <<PizzaItem>>, 5, PERDIEM, StartMs + 120000),
     InputOrder("a", <<PizzaItem>>, 5, PERDIEM, StartMs + 180000),
     InputOrder("b", <<BurgerItem>>, 3, PERDIEM, StartMs + 180000)}

RuleEach == Rule("each", 2, 1, {}, {}, None, None, Some(1), None, None)
RuleEachTwin == Rule("twin", 2, 1, {}, {}, None, None, Some(1), None, None)
RuleLong ==
    Rule("long", 2, 3, {"burger"}, {}, None, None, None, Some(1), None)

RuleNoBusyTime == Rule("bad", 2, 0, {}, {}, None, None, Some(1), None, None)
RuleZeroLimit == Rule("bad", 2, 1, {}, {}, None, None, Some(0), None, None)
RuleNoLimit == Rule("bad", 2, 1, {}, {}, None, None, None, None, None)
RuleWeekDay7 == Rule("bad", 2, 1, {}, {7}, None, None, Some(1), None, None)
RuleEndsEarly ==
    Rule("bad", 2, 1, {}, {}, Some(<<9, 0>>), Some(<<9, 0>>), Some(1), None, None)

InvalidRules ==
    {RuleNoFrame, RuleNoBusyTime, RuleZeroLimit, RuleNoLimit, RuleWeekDay7,
     RuleEndsEarly}

AgeingRuleLists ==
    {<<RuleEach, RuleEachTwin>>, <<RuleEach, RuleLong>>}
    \cup {<<RuleEach, rule>> : rule \in InvalidRules}

(* the clock advances between two calls; what the last call returned stays *)
Advance ==
    /\ now < StartMs + MaxTicks * TickMs
    /\ now' = now + TickMs
    /\ UNCHANGED <<timeframeMode, timeZone, engineRules, orders, busyTimes, adds,
                   last, calls,
                   engines, redis>>

NextAgeing ==
    \/ Advance
    \/ \E rules \in AgeingRuleLists : SetRules(rules)
    \/ \E inputOrder \in AgedOrders \cup AheadOrders : Add(inputOrder)
    \/ GetBusyTimes
    \/ GetOrders
    \/ \E range \in {<<RetentionEdgeMs, StartMs + 180000>>} :
          GetOrdersStats(range[1], range[2])

SpecAgeing == Init /\ [][NextAgeing]_vars

----------------------------------------------------------------------------
(* add, store command by store command.  add awaits each command it sends  *)
(* to the store, so the commands of two calls in flight interleave; the    *)
(* store runs one command at a time.  A step below is one command together *)
(* with the code of add that runs on its reply, up to the next command.    *)

MaxCalls == 2

CallIds == 1..MaxCalls

IdleCall ==
    [pc |-> "idle", nth |-> 0, overlapped |-> FALSE, order |-> None,
     rules |-> <<>>, k |-> 0, ordersInWindow |-> {}, busyTime |-> None,
     seen |-> {}, wrote |-> {}, error |-> None]

InFlight(call) == call.pc \notin {"idle", "return", "threw"}

(* an add that evaluates its rules before it stores its own order *)
AddSteps_RulesBeforeAddOrder ==
    <<"cleanOldOrders", "cleanOldBusyTimes", "rules", "addOrder">>

(* the order of the steps of add *)
AddSteps == <<"cleanOldOrders", "cleanOldBusyTimes", "addOrder", "rules">>

StepAfter(step) ==
    LET n == CHOOSE m \in DOMAIN AddSteps : AddSteps[m] = step
    IN  IF n = Len(AddSteps) THEN "return" ELSE AddSteps[n + 1]

(* a rule loop that is over once a busy period has been written *)
NextRule_UntilFirstWrite(call, k, zone) ==
    LET applying ==
            {j \in k..Len(call.rules) :
               ApplyCheck(call.rules[j], Val(call.order).orderTime, zone)}
    IN  IF applying = {} \/ call.wrote # {}
        THEN [call EXCEPT !.pc = StepAfter("rules"), !.k = 0]
        ELSE [call EXCEPT !.pc = "getOrdersInWindow",
                          !.k = CHOOSE j \in applying :
                                   \A other \in applying : j <= other]

(* the rule loop from rule k on: the next rule that applies sends its      *)
(* window query; with none left the loop is over                           *)
NextRule(call, k, zone) ==
    LET applying ==
            {j \in k..Len(call.rules) :
               ApplyCheck(call.rules[j], Val(call.order).orderTime, zone)}
    IN  IF applying = {}
        THEN [call EXCEPT !.pc = StepAfter("rules"), !.k = 0]
        ELSE [call EXCEPT !.pc = "getOrdersInWindow",
                          !.k = CHOOSE j \in applying :
                                   \A other \in applying : j <= other]

(* the test before the rule loop: no rules, or not an own-channel order,   *)
(* and add returns                                                         *)
EnterRules(call, rulesState, zone) ==
    IF \/ ~rulesState.defined
       \/ ~HasRules(rulesState.rules)
       \/ Val(call.order).source # PERDIEM
    THEN [call EXCEPT !.pc = "return"]
    ELSE NextRule([call EXCEPT !.rules = rulesState.rules], 1, zone)

(* the call after it completed a step of AddSteps *)
Proceed(call, step, rulesState, zone) ==
    IF StepAfter(step) = "rules"
    THEN EnterRules(call, rulesState, zone)
    ELSE [call EXCEPT !.pc = StepAfter(step)]

InitConcurrent ==
    \E param \in {None} \cup {Some(mode) : mode \in TimeframeMode} :
        /\ now = StartMs
        /\ timeframeMode = IF IsSet(param) THEN Val(param) ELSE BEFORE_ONLY
        /\ timeZone = UTC
        /\ engineRules = [defined |-> FALSE, rules |-> <<>>]
        /\ orders = {}
        /\ busyTimes = {}
        /\ adds = 0
        /\ last = [Result("new") EXCEPT !.result = param]
        /\ calls = [i \in CallIds |-> IdleCall]
        /\ engines = <<>>
        /\ redis = <<>>

(* the rules are set before the first add is called *)
ConfigureRules(rules) ==
    /\ \A i \in CallIds : calls[i].pc = "idle"
    /\ SetRules(rules)

(* add(inputOrder) is called: it reads the clock and prunes the orders *)
CallAdd(i, inputOrder) ==
    LET orderTimeSeconds == ToSeconds(inputOrder.orderTime)
        currentTimeSeconds == ToSeconds(now)
        order == [orderId |-> inputOrder.orderId, items |-> inputOrder.items,
                  totalAmountCents |-> inputOrder.totalAmountCents,
                  source |-> inputOrder.source,
                  orderTime |-> inputOrder.orderTime,
                  orderTimeSeconds |-> orderTimeSeconds,
                  currentTimeSeconds |-> currentTimeSeconds]
        call == [IdleCall EXCEPT
                   !.nth = adds + 1,
                   !.overlapped = \E j \in CallIds : InFlight(calls[j]),
                   !.order = Some(order)]
    IN  /\ calls[i].pc = "idle"
        /\ adds' = adds + 1
        /\ orders' = CleanOldOrders(orders, currentTimeSeconds)
        /\ calls' = [calls EXCEPT
                       ![i] = Proceed(call, "cleanOldOrders", engineRules,
                                      timeZone)]
        /\ UNCHANGED <<now, timeframeMode, timeZone, engineRules, busyTimes,
                       last,
                   engines, redis>>

CleanOldBusyTimesStep(i) ==
    /\ calls[i].pc = "cleanOldBusyTimes"
    /\ busyTimes' =
         CleanOldBusyTimes(busyTimes, Val(calls[i].order).currentTimeSeconds)
    /\ calls' = [calls EXCEPT
                   ![i] = Proceed(calls[i], "cleanOldBusyTimes", engineRules,
                                  timeZone)]
    /\ UNCHANGED <<now, timeframeMode, timeZone, engineRules, orders, adds,
                   last,
                   engines, redis>>

AddOrderStep(i) ==
    /\ calls[i].pc = "addOrder"
    /\ orders' = AddOrder(orders, Val(calls[i].order))
    /\ calls' = [calls EXCEPT
                   ![i] = Proceed(calls[i], "addOrder", engineRules, timeZone)]
    /\ UNCHANGED <<now, timeframeMode, timeZone, engineRules, busyTimes, adds,
                   last,
                   engines, redis>>

(* the window query of rule k and the threshold check on its reply *)
GetOrdersInWindowStep(i) ==
    LET call == calls[i]
        step == RuleStep(call.rules[call.k], Val(call.order), orders,
                         timeframeMode, timeZone)
        seen == [call EXCEPT
                   !.ordersInWindow = step.ordersInWindow,
                   !.seen = @ \cup {[k |-> call.k,
                                     ordersInWindow |-> step.ordersInWindow]}]
    IN  /\ call.pc = "getOrdersInWindow"
        /\ calls' = [calls EXCEPT
                       ![i] = IF IsSet(step.busyTime)
                              THEN [seen EXCEPT !.pc = "addBusyTime",
                                                !.busyTime = step.busyTime]
                              ELSE NextRule(seen, call.k + 1, timeZone)]
        /\ UNCHANGED <<now, timeframeMode, timeZone, engineRules, orders,
                       busyTimes, adds, last,
                   engines, redis>>

AddBusyTimeStep(i) ==
    LET call == calls[i]
        written == [call EXCEPT !.wrote = @ \cup {call.k}, !.busyTime = None]
    IN  /\ call.pc = "addBusyTime"
        /\ busyTimes' = AddBusyTime(busyTimes, Val(call.busyTime))
        /\ calls' = [calls EXCEPT ![i] = NextRule(written, call.k + 1, timeZone)]
        /\ UNCHANGED <<now, timeframeMode, timeZone, engineRules, orders, adds,
                       last,
                   engines, redis>>

ConcurrentOrders ==
    {InputOrder("a", <<PizzaItem>>, 5, PERDIEM, StartMs - 60000),
     InputOrder("b", <<BurgerItem>>, 3, PERDIEM, StartMs),
     InputOrder("o", <<PizzaItem>>, 5, PERDIEM, RetentionEdgeMs),
     InputOrder("d", <<PizzaItem, BurgerItem>>, 7, OTHER_CHANNEL, StartMs)}

ConcurrentRuleLists == {<<RuleOrders>>, <<RuleEach, RulePizza>>}

NextConcurrent ==
    \/ \E rules \in ConcurrentRuleLists : ConfigureRules(rules)
    \/ \E i \in CallIds, inputOrder \in ConcurrentOrders : CallAdd(i, inputOrder)
    \/ \E i \in CallIds : CleanOldBusyTimesStep(i)
    \/ \E i \in CallIds : AddOrderStep(i)
    \/ \E i \in CallIds : GetOrdersInWindowStep(i)
    \/ \E i \in CallIds : AddBusyTimeStep(i)

SpecConcurrent == InitConcurrent /\ [][NextConcurrent]_vars

----------------------------------------------------------------------------
(* add over a store that can reject a command.  add awaits every command   *)
(* outside any try/catch, so the rejection of a command is the rejection   *)
(* of add at that command: what the call has written stays written.        *)

(* an add that logs the rejection of a command and returns normally *)
Rejected_Swallowed(call) ==
    [call EXCEPT !.pc = "return", !.error = Some("store")]

(* the call whose command was rejected: add throws the store's error *)
Rejected(call) == [call EXCEPT !.pc = "threw", !.error = Some("store")]

(* add is called and the store rejects its first command, the prune of the *)
(* orders; the order record is not built yet                               *)
CallAddRejected(i) ==
    LET call == [IdleCall EXCEPT
                   !.nth = adds + 1,
                   !.overlapped = \E j \in CallIds : InFlight(calls[j])]
    IN  /\ calls[i].pc = "idle"
        /\ adds' = adds + 1
        /\ calls' = [calls EXCEPT ![i] = Rejected(call)]
        /\ UNCHANGED <<now, timeframeMode, timeZone, engineRules, orders,
                       busyTimes, last, engines, redis>>

(* the store rejects the command the call has sent: nothing is written *)
StoreRejects(i) ==
    /\ calls[i].pc \in {"cleanOldBusyTimes", "addOrder", "getOrdersInWindow",
                        "addBusyTime"}
    /\ calls' = [calls EXCEPT ![i] = Rejected(calls[i])]
    /\ UNCHANGED <<now, timeframeMode, timeZone, engineRules, orders,
                   busyTimes, adds, last, engines, redis>>

NextStoreFailure ==
    \/ \E rules \in ConcurrentRuleLists : ConfigureRules(rules)
    \/ \E i \in CallIds, inputOrder \in ConcurrentOrders : CallAdd(i, inputOrder)
    \/ \E i \in CallIds : CallAddRejected(i)
    \/ \E i \in CallIds : CleanOldBusyTimesStep(i)
    \/ \E i \in CallIds : AddOrderStep(i)
    \/ \E i \in CallIds : GetOrdersInWindowStep(i)
    \/ \E i \in CallIds : AddBusyTimeStep(i)
    \/ \E i \in CallIds : StoreRejects(i)

SpecStoreFailure == InitConcurrent /\ [][NextStoreFailure]_vars

----------------------------------------------------------------------------
(* The records of a burst of adds, followed until the retention has        *)
(* passed.  The orders are added while the clock is within MaxTicks ticks  *)
(* of the start; the clock then moves past the retention of every order of *)
(* the burst.  Time keeps advancing and the calls that prune keep being    *)
(* made: the clock steps and the two pruning reads are weakly fair.        *)

ExpiryOrders ==
    {InputOrder("a", <<PizzaItem>>, 5, PERDIEM, StartMs - 60000),
     InputOrder("b", <<BurgerItem>>, 3, PERDIEM, StartMs + 60000),
     InputOrder("a", <<PizzaItem>>, 5, PERDIEM, StartMs + 180000)}

ExpiryRuleLists == {<<RuleEach, RuleLong>>}

(* the clock once the retention of the last order of the burst has passed *)
ExpiredMs == StartMs + 180000 + ORDERS_RETENTION_SECONDS * 1000

(* the clock moves on by the retention and the span of the burst *)
Age ==
    /\ now < ExpiredMs
    /\ now' = now + (ExpiredMs - StartMs)
    /\ UNCHANGED <<timeframeMode, timeZone, engineRules, orders, busyTimes, adds,
                   last, calls, engines, redis>>

(* add, called during the burst *)
BurstAdd(inputOrder) ==
    /\ now <= StartMs + MaxTicks * TickMs
    /\ Add(inputOrder)

NextExpiry ==
    \/ Advance
    \/ Age
    \/ \E rules \in ExpiryRuleLists : SetRules(rules)
    \/ \E inputOrder \in ExpiryOrders : BurstAdd(inputOrder)
    \/ GetBusyTimes
    \/ \E orderTime \in Instants : ValidateOrderTime(orderTime)
    \/ GetOrders

SpecExpiry ==
    /\ Init
    /\ [][NextExpiry]_vars
    /\ WF_vars(Advance)
    /\ WF_vars(Age)
    /\ WF_vars(GetBusyTimes)
    /\ WF_vars(GetOrders)

----------------------------------------------------------------------------
(* Properties *)

StartOf(entry) == ToSeconds(DecodeBusyTime(entry.member).startTime)
EndOf(entry) == ToSeconds(DecodeBusyTime(entry.member).endTime)
Inside(t, entry) == StartOf(entry) <= t /\ t <= EndOf(entry)

(* C1: the wait returned by validateOrderTime(t) carries t past every      *)
(* stored busy period: t + waitPeriodSeconds lies inside none of them.     *)
C1_WaitClearsEveryBusyPeriod ==
    last.op = "validateOrderTime"
        => \A e \in busyTimes : ~Inside(last.t + last.wait, e)

(* C2: validateOrderTime(t) returns 0 exactly when t lies inside no stored *)
(* busy period, and a t inside any stored period [startTime, endTime]      *)
(* waits at least endTime + 1 - t.                                         *)
C2_ZeroWaitIffOutsideEveryPeriod ==
    last.op = "validateOrderTime"
        => /\ (last.wait = 0) <=> (\A e \in busyTimes : ~Inside(last.t, e))
           /\ \A e \in busyTimes :
                 Inside(last.t, e) => last.wait >= EndOf(e) + 1 - last.t

(* C3: a stored busy period stays in the stream at every later time before *)
(* its endTime: no step removes a period whose endTime is still after the  *)
(* clock.                                                                  *)
C3_BusyPeriodKeptUntilEndTime ==
    [][\A e \in busyTimes :
          EndOf(e) > ToSeconds(now')
              => \E f \in busyTimes' : f.member = e.member]_vars

----------------------------------------------------------------------------
(* The last add call, as far as the store shows it.  The rule loop leaves  *)
(* the orders stream alone, so after add it is the stream the loop read.   *)

RanRules == last.op = "add" /\ last.trace # <<>>
LastOrder == Val(last.order)
RuleAt(k) == engineRules.rules[k]
StepAt(k) == last.trace[k]
WindowAt(k) == Val(StepAt(k).timeWindow)

(* the stored own-channel records whose score lies in [lo, hi] *)
OwnChannelBetween(lo, hi) ==
    {e \in orders : e.member.s = "P" /\ lo <= e.score /\ e.score <= hi}

OwnChannelInWindow(k) == OwnChannelBetween(WindowAt(k).start, WindowAt(k).end)

OnlyMaxOrders(rule) ==
    IsSet(rule.maxOrders) /\ ~IsSet(rule.maxItems) /\ ~IsSet(rule.maxAmountCents)

WroteBusyTime(k) ==
    /\ IsSet(StepAt(k).busyTime)
    /\ \E e \in busyTimes : e.member = EncodeBusyTime(Val(StepAt(k).busyTime))

C5_BusyPeriodShape ==
    /\ RanRules =>
          \A k \in DOMAIN last.trace :
              IsSet(StepAt(k).busyTime) =>
                  LET b == Val(StepAt(k).busyTime)
                      seconds == RuleAt(k).busyTimeMinutes * 60
                      late == LastOrder.orderTimeSeconds
                                >= LastOrder.currentTimeSeconds + seconds
                      end == IF late THEN LastOrder.orderTimeSeconds
                             ELSE LastOrder.currentTimeSeconds + seconds
                  IN  /\ b.busyTimeSeconds = seconds
                      /\ b.endTime = end * 1000
                      /\ b.startTime = (end - seconds) * 1000
                      /\ b.orderTimeSeconds = ToSeconds(LastOrder.orderTime)
                      /\ b.currentTimeSeconds = ToSeconds(now)
                      /\ \E e \in busyTimes : DecodeBusyTime(e.member) = b
    /\ \A e \in busyTimes :
          /\ e.member.et - e.member.st = e.member.bts
          /\ e.member.bts > 0
          /\ e.member.et >= e.member.ots
          /\ e.member.et >= e.member.cts + e.member.bts

(* C5 witness: add wrote a busy period for an order placed later than the  *)
(* ingestion time plus the busy time, so that it ends at the order time.   *)
C5_Witness ==
    /\ RanRules
    /\ \E k \in DOMAIN last.trace :
          /\ WroteBusyTime(k)
          /\ LastOrder.orderTimeSeconds
                > LastOrder.currentTimeSeconds + RuleAt(k).busyTimeMinutes * 60

(* C6: for order time T and frame F = timeFrameMinutes * 60 the window of  *)
(* a rule is [T-F, T] in before_only, [T, T+F] in after_only,              *)
(* [T-floor(F/2), T+floor(F/2)] in centered and [T-F, T+F] in              *)
(* before_and_after, and the rule sees the own-channel orders stored in    *)
(* it; the mode is before_only unless the constructor is given one, never  *)
(* changes, and is the same for every rule of a call.                      *)
C6_Lo(mode, T, F) ==
    IF mode = AFTER_ONLY THEN T
    ELSE IF mode = CENTERED THEN T - (F \div 2)
    ELSE T - F

C6_Hi(mode, T, F) ==
    IF mode = BEFORE_ONLY THEN T
    ELSE IF mode = CENTERED THEN T + (F \div 2)
    ELSE T + F

C6_WindowUsed ==
    /\ (last.op = "new" /\ ~IsSet(last.result)) => (timeframeMode = BEFORE_ONLY)
    /\ RanRules =>
          \A k \in DOMAIN last.trace :
              StepAt(k).applies =>
                  LET T == LastOrder.orderTimeSeconds
                      F == RuleAt(k).timeFrameMinutes * 60
                      lo == C6_Lo(timeframeMode, T, F)
                      hi == C6_Hi(timeframeMode, T, F)
                  IN  /\ WindowAt(k) = [start |-> lo, end |-> hi]
                      /\ StepAt(k).ordersInWindow
                           = {DecodeOrder(e.member) : e \in OwnChannelBetween(lo, hi)}

(* C6: the window of each mode, as stated above, in every state; the mode  *)
(* of an engine never changes.                                             *)
C6_WindowOfMode == []C6_WindowUsed /\ [][timeframeMode' = timeframeMode]_vars

(* C6 witness: in before_and_after mode a rule saw an order stored a whole *)
(* frame before the ingested one.                                          *)
C6_Witness ==
    /\ RanRules
    /\ timeframeMode = BEFORE_AND_AFTER
    /\ \E k \in DOMAIN last.trace :
          /\ StepAt(k).applies
          /\ \E o \in StepAt(k).ordersInWindow :
                o.orderTimeSeconds
                  = LastOrder.orderTimeSeconds - RuleAt(k).timeFrameMinutes * 60

(* C7: window bounds are inclusive.  In centered mode with timeFrameMinutes *)
(* = 2F a stored own-channel order exactly F minutes before or after the   *)
(* ingested order is counted for the rule, one a minute further away on    *)
(* either side is not.                                                     *)
C7_CenteredBoundsInclusive ==
    (RanRules /\ timeframeMode = CENTERED) =>
        \A k \in DOMAIN last.trace :
            (StepAt(k).applies /\ RuleAt(k).timeFrameMinutes % 2 = 0) =>
                LET F == RuleAt(k).timeFrameMinutes \div 2
                    T == LastOrder.orderTimeSeconds
                    Counted(e) == DecodeOrder(e.member) \in StepAt(k).ordersInWindow
                IN  \A e \in orders :
                        e.member.s = "P" =>
                            /\ (e.score \in {T - F * 60, T + F * 60})
                                 => Counted(e)
                            /\ (e.score \in {T - (F + 1) * 60, T + (F + 1) * 60})
                                 => ~Counted(e)

(* C7 witness: in centered mode a rule of frame 2F with maxOrders = 2      *)
(* counted an order stored exactly F minutes after the ingested one and    *)
(* wrote a busy period.                                                    *)
C7_Witness ==
    /\ RanRules
    /\ timeframeMode = CENTERED
    /\ \E k \in DOMAIN last.trace :
          /\ StepAt(k).applies
          /\ RuleAt(k).timeFrameMinutes % 2 = 0
          /\ RuleAt(k).maxOrders = Some(2)
          /\ WroteBusyTime(k)
          /\ \E e \in orders :
                /\ e.member.s = "P"
                /\ e.score = LastOrder.orderTimeSeconds
                               + (RuleAt(k).timeFrameMinutes \div 2) * 60

----------------------------------------------------------------------------
(* The totals a rule is compared on, read off the stored records: over the *)
(* whole window for a rule without categories, over the orders with a      *)
(* matching item and their matching items for a rule with categories.      *)

ItemMatches(rule, item) == item.c # "" /\ item.c \in rule.categoryIds

CountedItems(rule, member) ==
    {i \in DOMAIN member.is :
        rule.categoryIds = {} \/ ItemMatches(rule, member.is[i])}

RECURSIVE SumOver(_, _)
SumOver(f, domain) ==
    IF domain = {} THEN 0
    ELSE LET x == CHOOSE y \in domain : TRUE
         IN  f[x] + SumOver(f, domain \ {x})

CountedMembers(k) ==
    {e.member : e \in {x \in OwnChannelInWindow(k) :
                         \/ RuleAt(k).categoryIds = {}
                         \/ \E i \in DOMAIN x.member.is :
                               ItemMatches(RuleAt(k), x.member.is[i])}}

CountedOrders(k) == Cardinality(CountedMembers(k))

CountedQuantity(k) ==
    SumOver([m \in CountedMembers(k) |->
               SumOver([i \in CountedItems(RuleAt(k), m) |-> m.is[i].q],
                       CountedItems(RuleAt(k), m))],
            CountedMembers(k))

CountedAmount(k) ==
    SumOver([m \in CountedMembers(k) |->
               IF RuleAt(k).categoryIds = {} THEN m.t
               ELSE SumOver([i \in CountedItems(RuleAt(k), m) |-> m.is[i].tac],
                            CountedItems(RuleAt(k), m))],
            CountedMembers(k))

OrdersMet(k) ==
    IsSet(RuleAt(k).maxOrders) /\ CountedOrders(k) >= Val(RuleAt(k).maxOrders)
ItemsMet(k) ==
    IsSet(RuleAt(k).maxItems) /\ CountedQuantity(k) >= Val(RuleAt(k).maxItems)
AmountMet(k) ==
    IsSet(RuleAt(k).maxAmountCents)
    /\ CountedAmount(k) >= Val(RuleAt(k).maxAmountCents)

(* C8: thresholdCheck tests maxOrders, maxItems, maxAmountCents in that    *)
(* order and reports the first limit met: orders if maxOrders is met,      *)
(* otherwise items if maxItems is met, otherwise amount; when none is met  *)
(* it returns null and add writes no busy period for the rule.             *)
C8_FirstMetThresholdReported ==
    RanRules =>
        \A k \in DOMAIN last.trace :
            StepAt(k).applies =>
                LET info == StepAt(k).thresholdInfo
                IN  IF OrdersMet(k)
                    THEN info.met /\ info.threshold.type = "orders"
                         /\ info.threshold.value = CountedOrders(k)
                         /\ info.threshold.limit = Val(RuleAt(k).maxOrders)
                    ELSE IF ItemsMet(k)
                    THEN info.met /\ info.threshold.type = "items"
                         /\ info.threshold.value = CountedQuantity(k)
                         /\ info.threshold.limit = Val(RuleAt(k).maxItems)
                    ELSE IF AmountMet(k)
                    THEN info.met /\ info.threshold.type = "amount"
                         /\ info.threshold.value = CountedAmount(k)
                         /\ info.threshold.limit = Val(RuleAt(k).maxAmountCents)
                    ELSE ~info.met /\ ~IsSet(StepAt(k).busyTime)

(* C8 witness: the item and the amount limit of a rule were met at once,   *)
(* the order limit was not, and the busy period written reports items.     *)
C8_Witness ==
    /\ RanRules
    /\ \E k \in DOMAIN last.trace :
          /\ StepAt(k).applies
          /\ IsSet(RuleAt(k).maxOrders)
          /\ ~OrdersMet(k)
          /\ ItemsMet(k)
          /\ AmountMet(k)
          /\ WroteBusyTime(k)
          /\ Val(StepAt(k).busyTime).threshold.type = "items"

(* C9: a rule with categories counts only the orders with an item of one   *)
(* of its categories, and of these the matching items alone; it never      *)
(* triggers when no order of the window has such an item, however many     *)
(* orders, items or cents the window holds.                                *)
C9_CategoryScoping ==
    RanRules =>
        \A k \in DOMAIN last.trace :
            (StepAt(k).applies /\ RuleAt(k).categoryIds # {}) =>
                LET info == StepAt(k).thresholdInfo
                    matching ==
                        {e \in OwnChannelInWindow(k) :
                            \E i \in DOMAIN e.member.is :
                                e.member.is[i].c \in RuleAt(k).categoryIds}
                IN  /\ matching = {}
                         => (~info.met /\ ~IsSet(StepAt(k).busyTime))
                    /\ info.met =>
                         info.threshold.value
                           = CASE info.threshold.type = "orders" ->
                                    Cardinality(matching)
                               [] info.threshold.type = "items" ->
                                    CountedQuantity(k)
                               [] info.threshold.type = "amount" ->
                                    CountedAmount(k)

(* C9 witness: the window of a rule with categories held no order of its   *)
(* categories but orders worth more than its amount limit, and the rule    *)
(* wrote nothing.                                                          *)
C9_Witness ==
    /\ RanRules
    /\ \E k \in DOMAIN last.trace :
          /\ StepAt(k).applies
          /\ RuleAt(k).categoryIds # {}
          /\ IsSet(RuleAt(k).maxAmountCents)
          /\ \A e \in OwnChannelInWindow(k) :
                \A i \in DOMAIN e.member.is :
                    e.member.is[i].c \notin RuleAt(k).categoryIds
          /\ SumOver([e \in OwnChannelInWindow(k) |-> e.member.t],
                     OwnChannelInWindow(k)) > Val(RuleAt(k).maxAmountCents)
          /\ ~IsSet(StepAt(k).busyTime)

(* the orders stream without its other-channel records *)
OwnChannelStore == {e \in orders : e.member.s = "P"}

(* C10: other-channel orders never count.  The orders a rule sees are      *)
(* own-channel, the context totals are those of the own-channel orders of  *)
(* the window, and each rule of an add comes to what it comes to on the    *)
(* store without its other-channel orders.                                 *)
C10_OtherChannelNeverCounts ==
    RanRules =>
        \A k \in DOMAIN last.trace :
            /\ \A o \in StepAt(k).ordersInWindow : o.source = PERDIEM
            /\ StepAt(k).busyTime
                 = RuleStep(RuleAt(k), LastOrder, OwnChannelStore,
                            timeframeMode, timeZone).busyTime
            /\ StepAt(k).thresholdInfo.met =>
                 LET context == StepAt(k).thresholdInfo.busyTimeContext
                     own == OwnChannelInWindow(k)
                 IN  /\ context.totalOrders = Cardinality(own)
                     /\ context.totalAmountCents
                          = SumOver([e \in own |-> e.member.t], own)
                     /\ context.totalItems
                          = SumOver([e \in own |->
                                       SumOver([i \in DOMAIN e.member.is |->
                                                  e.member.is[i].q],
                                               DOMAIN e.member.is)], own)

(* C10 witness: an other-channel order lay in the window of a rule whose   *)
(* order limit it would have filled, and the rule wrote nothing.           *)
C10_Witness ==
    /\ RanRules
    /\ \E k \in DOMAIN last.trace :
          /\ StepAt(k).applies
          /\ OnlyMaxOrders(RuleAt(k))
          /\ ~IsSet(StepAt(k).busyTime)
          /\ Cardinality({e \in orders :
                            /\ WindowAt(k).start <= e.score
                            /\ e.score <= WindowAt(k).end})
                >= Val(RuleAt(k).maxOrders)

----------------------------------------------------------------------------
(* A step of add, seen from both of its sides: the streams as the call's   *)
(* prune leaves them, and what the call wrote.                             *)

AddStep == adds' = adds + 1 /\ last'.op = "add"
PrunedOrders == CleanOldOrders(orders, ToSeconds(now))
PrunedBusyTimes == CleanOldBusyTimes(busyTimes, ToSeconds(now))
TriggeredRules(trace) == {k \in DOMAIN trace : IsSet(trace[k].busyTime)}

(* C11: one add call leaves exactly one more busy-period record per        *)
(* triggered rule than its prune left, and exactly one more order record,  *)
(* also when several triggered rules have equal busy times and thresholds. *)
C11_OneRecordPerTriggeredRule ==
    [][AddStep =>
          /\ Cardinality(busyTimes')
               = Cardinality(PrunedBusyTimes)
                   + Cardinality(TriggeredRules(last'.trace))
          /\ Cardinality(orders') = Cardinality(PrunedOrders) + 1]_vars

(* C12: while no rule set has been set, or the rule set is empty, add      *)
(* still stores the order in the orders stream, under its orderTime in     *)
(* seconds, and writes no busy period: the busy-period stream is what the  *)
(* call's prune left.                                                      *)
C12_NoRulesStoresOrderOnly ==
    [][(AddStep /\ (~engineRules.defined \/ ~HasRules(engineRules.rules)))
          => /\ [score |-> ToSeconds(Val(last'.order).orderTime),
                 member |-> EncodeOrder(Val(last'.order))] \in orders'
             /\ busyTimes' = PrunedBusyTimes
             /\ last'.trace = <<>>]_vars

C12_Witness ==
    /\ last.op = "add"
    /\ ~engineRules.defined
    /\ LastOrder.source = PERDIEM
    /\ \E e \in orders : e.member = EncodeOrder(LastOrder)
    /\ busyTimes = {}

(* a call of getBusyTimes: the step that leaves its result in last *)
GetBusyTimesStep == last'.op = "getBusyTimes" /\ now' = now

(* C13: getBusyTimes returns the stored busy periods, each once, in        *)
(* ascending startTime order, whatever the order of their scores.          *)
C13_BusyTimesSortedByStartTime ==
    [][GetBusyTimesStep =>
          /\ \A i, j \in DOMAIN last'.result :
                i < j => last'.result[i].startTime <= last'.result[j].startTime
          /\ Len(last'.result) = Cardinality(PrunedBusyTimes)
          /\ {last'.result[k] : k \in DOMAIN last'.result}
               = {DecodeBusyTime(e.member) : e \in PrunedBusyTimes}]_vars

(* two returned periods whose scores (orderTimeSeconds) are in the other   *)
(* order than their start times                                            *)
C13_Witness ==
    /\ last.op = "getBusyTimes"
    /\ \E i, j \in DOMAIN last.result :
          /\ i < j
          /\ last.result[i].startTime < last.result[j].startTime
          /\ last.result[i].orderTimeSeconds > last.result[j].orderTimeSeconds

(* C14: getBusyTimes called at time now returns no busy period whose       *)
(* endTime is at or before now, and the periods validateOrderTime sweeps   *)
(* are free of them too: its wait is the sweep over unexpired periods.     *)
C14_NoExpiredBusyPeriodReturned ==
    /\ last.op = "getBusyTimes"
          => \A k \in DOMAIN last.result : last.result[k].endTime > now
    /\ last.op = "validateOrderTime"
          => /\ \A k \in DOMAIN last.result : last.result[k].endTime > now
             /\ last.wait
                  = WaitSweep(SelectSeq(last.result,
                                        LAMBDA busyTime : busyTime.endTime > now),
                              1, last.t, 0)

(* both calls met a stored period that had ended, and left it out *)
C14_Witness ==
    /\ last.op \in {"getBusyTimes", "validateOrderTime"}
    /\ \E e \in last.pruned : EndOf(e) * 1000 <= now
    /\ last.result # <<>>

(* a call that prunes the orders stream: add, getOrders or getOrdersStats *)
OrdersPruneStep ==
    last'.op \in {"add", "getOrders", "getOrdersStats"} /\ now' = now

(* the record the call itself stored, if it is an add *)
IngestedBy(result) ==
    IF result.op = "add" THEN {EncodeOrder(Val(result.order))} ELSE {}

(* C15: a prune of the orders stream at time now removes exactly the       *)
(* orders scored strictly below now - 604800 s and keeps every other one,  *)
(* an order scored exactly now - 604800 s included.                        *)
C15_PruneRemovesStrictlyOlderOrders ==
    [][OrdersPruneStep =>
          \A e \in orders :
             e.member \notin IngestedBy(last')
                => ((e \notin orders')
                      <=> (e.score < ToSeconds(now) - ORDERS_RETENTION_SECONDS))]_vars

(* two getOrders calls with nothing in between but, possibly, the clock *)
GetOrdersTwice == last.op = "getOrders" /\ last'.op = "getOrders"

(* C16: two getOrders calls in succession, with no add in between, return  *)
(* the same set of orders.                                                 *)
C16_GetOrdersTwiceSameSet ==
    [][GetOrdersTwice => last'.result = last.result]_vars

(* C16, amended: two getOrders calls in succession return the same set of  *)
(* orders when no order of the first result has reached the retention age  *)
(* by the time of the second call.                                         *)
C16_GetOrdersTwiceSameSetWhileRetained ==
    [][(GetOrdersTwice
          /\ \A order \in last.result :
                order.orderTimeSeconds
                   > ToSeconds(now') - ORDERS_RETENTION_SECONDS)
          => last'.result = last.result]_vars

C16_Witness ==
    /\ last.op = "getOrders"
    /\ last.repeated
    /\ now > StartMs
    /\ last.result # {}

(* C17: every add of an order whose score is within the retention leaves   *)
(* exactly one more order record than its prune left, also when an order   *)
(* of the same orderId, at the same or another orderTime, is stored.       *)
C17_EveryAddIsOneMoreRecord ==
    [][(AddStep
          /\ ToSeconds(Val(last'.order).orderTime)
                > ToSeconds(now) - ORDERS_RETENTION_SECONDS)
          => Cardinality(orders') = Cardinality(PrunedOrders) + 1]_vars

(* a call of setRules: the step that leaves its argument in last.result *)
SetRulesStep == last'.op = "setRules" /\ now' = now

(* the ways a rule is invalid *)
InvalidRule(rule) ==
    \/ rule.timeFrameMinutes <= 0
    \/ rule.busyTimeMinutes <= 0
    \/ \E limit \in {rule.maxOrders, rule.maxItems, rule.maxAmountCents} :
          IsSet(limit) /\ Val(limit) <= 0
    \/ \A limit \in {rule.maxOrders, rule.maxItems, rule.maxAmountCents} :
          ~IsSet(limit)
    \/ \E day \in rule.weekDays : day \notin 0..6
    \/ /\ IsSet(rule.startTime)
       /\ IsSet(rule.endTime)
       /\ TimeStringToMinutes(Val(rule.startTime))
             >= TimeStringToMinutes(Val(rule.endTime))

(* the rules in effect are all valid, and so are the rules add evaluated *)
C20_RulesInEffectAreValid ==
    /\ engineRules.defined
          => /\ engineRules.rules # <<>>
             /\ \A k \in DOMAIN engineRules.rules :
                   ~InvalidRule(engineRules.rules[k])
    /\ last.op = "add"
          => /\ ~last.threw
             /\ Len(last.trace) \in {0, Len(engineRules.rules)}

(* C20: setRules throws when any rule of its list is invalid, and then no  *)
(* rule of that list takes effect: the rule set stays what it was.  So     *)
(* every rule add evaluates has passed validation, and add raises nothing. *)
C20_InvalidRuleListRejected ==
    /\ []C20_RulesInEffectAreValid
    /\ [][(SetRulesStep
             /\ \E k \in DOMAIN last'.result : InvalidRule(last'.result[k]))
             => (last'.threw /\ engineRules' = engineRules)]_vars
    /\ [][(SetRulesStep /\ ~last'.threw)
             => /\ engineRules'.rules = last'.result
                /\ \A k \in DOMAIN last'.result : ~InvalidRule(last'.result[k])]_vars

(* a list with a valid first rule and an invalid second one was refused    *)
(* while another rule set was in effect, and that one still is             *)
C20_Witness ==
    /\ last.op = "setRules"
    /\ last.threw
    /\ Len(last.result) = 2
    /\ ~InvalidRule(last.result[1])
    /\ InvalidRule(last.result[2])
    /\ engineRules.defined
    /\ engineRules.rules # last.result

----------------------------------------------------------------------------
(* Calls of add run one after the other, for comparison: add as a function *)
(* of the two streams, and a sequence of adds from empty streams.          *)

AddAtomically(orderZset, busyZset, order, rulesState, mode, zone) ==
    LET cleanOrders == CleanOldOrders(orderZset, order.currentTimeSeconds)
        cleanBusyTimes == CleanOldBusyTimes(busyZset, order.currentTimeSeconds)
        storedOrders == AddOrder(cleanOrders, order)
        skip == \/ ~rulesState.defined
                \/ ~HasRules(rulesState.rules)
                \/ order.source # PERDIEM
    IN  [orders |-> storedOrders,
         busyTimes |->
             IF skip THEN cleanBusyTimes
             ELSE RuleLoop(rulesState.rules, 1, order, storedOrders,
                           cleanBusyTimes, mode, zone),
         wrote |->
             IF skip THEN {}
             ELSE {k \in DOMAIN rulesState.rules :
                     IsSet(RuleStep(rulesState.rules[k], order, storedOrders,
                                    mode, zone).busyTime)}]

RECURSIVE RunInOrder(_, _, _)
RunInOrder(orderSeq, orderZset, busyZset) ==
    IF orderSeq = <<>>
    THEN [orders |-> orderZset, busyTimes |-> busyZset, wrote |-> <<>>]
    ELSE LET first == AddAtomically(orderZset, busyZset, Head(orderSeq),
                                    engineRules, timeframeMode, timeZone)
             rest == RunInOrder(Tail(orderSeq), first.orders, first.busyTimes)
         IN  [rest EXCEPT !.wrote = <<first.wrote>> \o @]

AllReturned == \A i \in CallIds : calls[i].pc = "return"

(* the orders of the calls, in the order given by a sequence of call ids *)
OrdersOf(ids) == [n \in DOMAIN ids |-> Val(calls[ids[n]].order)]

(* the call ids in the order the calls were made *)
InCallOrder == [n \in CallIds |-> CHOOSE i \in CallIds : calls[i].nth = n]

Orderings ==
    {ids \in [CallIds -> CallIds] : \A i, j \in CallIds : i # j => ids[i] # ids[j]}

(* run one after the other in the order ids, some call writes for rule k *)
WritesInOrder(ids, k) ==
    LET run == RunInOrder(OrdersOf(ids), {}, {})
    IN  {n \in DOMAIN ids : k \in run.wrote[n]}

(* C18: add calls are not mutually exclusive.  Calls that do not overlap   *)
(* leave the streams, and write the busy periods, of the same adds run one *)
(* after the other, and every call writes for a rule exactly when the      *)
(* orders its own window query returned reach the rule's threshold; calls  *)
(* that overlap can therefore both write for a rule after reading the same *)
(* set of orders, where one after the other only one of them writes        *)
(* (C18_Witness).                                                          *)
C18_SerialAddsAreSequential ==
    AllReturned =>
       /\ (\A i \in CallIds : ~calls[i].overlapped) =>
             LET run == RunInOrder(OrdersOf(InCallOrder), {}, {})
             IN  /\ orders = run.orders
                 /\ busyTimes = run.busyTimes
                 /\ \A n \in CallIds : calls[InCallOrder[n]].wrote = run.wrote[n]
       /\ \A i \in CallIds :
             /\ \A k \in calls[i].wrote : \E s \in calls[i].seen : s.k = k
             /\ \A s \in calls[i].seen :
                   (s.k \in calls[i].wrote)
                      <=> ThresholdCheck(calls[i].rules[s.k], s.ordersInWindow).met

(* a double trigger: two calls read the same orders and both wrote for     *)
(* rule k, and in either order one after the other only one call writes    *)
C18_Witness ==
    /\ AllReturned
    /\ \E i, j \in CallIds, k \in DOMAIN engineRules.rules :
          /\ i # j
          /\ k \in calls[i].wrote /\ k \in calls[j].wrote
          /\ \E s \in calls[i].seen, t \in calls[j].seen :
                s.k = k /\ t.k = k /\ s.ordersInWindow = t.ordersInWindow
          /\ \A ids \in Orderings : Cardinality(WritesInOrder(ids, k)) = 1

(* no order of a call is at or beyond the retention when the call is made *)
AllWithinRetention ==
    \A i \in CallIds :
       Val(calls[i].order).orderTimeSeconds
          > Val(calls[i].order).currentTimeSeconds - ORDERS_RETENTION_SECONDS

(* C19: a trigger can be missed by calls that overlap (C19_Witness), and   *)
(* only through the prune of another call: when every order is within the  *)
(* retention, a rule for which the calls run one after the other write a   *)
(* busy period in every order gets one from some call however they         *)
(* interleave.                                                             *)
C19_NoMissWhileRetained ==
    (AllReturned /\ AllWithinRetention) =>
       \A k \in DOMAIN engineRules.rules :
          (\A ids \in Orderings : WritesInOrder(ids, k) # {})
             => \E i \in CallIds : k \in calls[i].wrote

(* a missed trigger: one after the other, in either order, the calls write *)
(* for rule k; interleaved as they were, no call did                       *)
C19_Witness ==
    /\ AllReturned
    /\ \E k \in DOMAIN engineRules.rules :
          /\ \A ids \in Orderings : WritesInOrder(ids, k) # {}
          /\ \A i \in CallIds : k \notin calls[i].wrote

----------------------------------------------------------------------------
(* C21: setRules([]) throws "At least one busy time rule must be provided" *)
(* and leaves the engine's rule set as it was.                             *)
C21_EmptyRuleListRejected ==
    [][(SetRulesStep /\ last'.result = <<>>)
         => /\ last'.threw
            /\ last'.message = "At least one busy time rule must be provided"
            /\ engineRules' = engineRules]_vars

(* an empty list was refused while a rule set was in effect *)
C21_Witness ==
    /\ last.op = "setRules"
    /\ last.result = <<>>
    /\ last.threw
    /\ engineRules.defined
    /\ Len(engineRules.rules) > 0

----------------------------------------------------------------------------
(* C22: setRules replaces the rule set as a whole.  A setRules that        *)
(* returns leaves exactly its argument in effect, a setRules that throws   *)
(* leaves the rule set as it was, no other operation changes the rule set, *)
(* and an add of an own-channel order evaluates the rules in effect, one   *)
(* iteration per rule and in their order: every busy period it writes is   *)
(* the busy period of one of them.                                         *)
C22_RuleSetReplacedAtomically ==
    [][/\ SetRulesStep =>
            IF last'.threw THEN engineRules' = engineRules
            ELSE engineRules' = [defined |-> TRUE, rules |-> last'.result]
       /\ ~SetRulesStep => engineRules' = engineRules
       /\ (AddStep /\ Val(last'.order).source = PERDIEM) =>
            /\ Len(last'.trace) = Len(engineRules.rules)
            /\ \A k \in DOMAIN last'.trace :
                   last'.trace[k] =
                       RuleStep(engineRules.rules[k], Val(last'.order), orders',
                                timeframeMode, timeZone)
            /\ \A e \in busyTimes' \ busyTimes :
                   \E k \in DOMAIN engineRules.rules :
                       /\ e.member.bts = engineRules.rules[k].busyTimeMinutes * 60
                       /\ e.member.t.c = engineRules.rules[k].categoryIds]_vars

(* an add under a rule set that replaced another one: the store still holds *)
(* a busy period of the replaced rule set (three minutes long), and both    *)
(* rules in effect (one minute long) triggered                              *)
C22_Witness ==
    /\ last.op = "add"
    /\ engineRules.rules = <<RuleEach, RuleEachTwin>>
    /\ Len(last.trace) = 2
    /\ \A k \in DOMAIN last.trace : IsSet(last.trace[k].busyTime)
    /\ \E e \in busyTimes : e.member.bts = 180
    /\ \E e \in busyTimes : e.member.bts = 60

----------------------------------------------------------------------------
(* Several engines, one per bucket, over one store.  The store is its      *)
(* keyspace: a function from the keys that hold a sorted set to that set   *)
(* (a key whose sorted set becomes empty is deleted).  An engine keeps the *)
(* two keys its constructor derives from the bucket name and sends every   *)
(* command to one of them.                                                 *)

(* two bucket names, one a prefix of the other *)
Buckets == {"nyc", "nyc2"}

(* a key that leaves the bucket out *)
OrdersKey_NoBucket(bucket) == "orders:"

OrdersKey(bucket) == "orders:" \o bucket

BusyTimesKey(bucket) == "busytimes:" \o bucket

(* new Engine({bucket, redis}) with the default mode and time zone *)
NewEngine(bucket) ==
    [timeframeMode |-> BEFORE_ONLY, timeZone |-> UTC,
     engineRules |-> [defined |-> FALSE, rules |-> <<>>],
     ordersKey |-> OrdersKey(bucket), busyTimesKey |-> BusyTimesKey(bucket)]

ZSetAt(store, key) == IF key \in DOMAIN store THEN store[key] ELSE {}

Put(store, key, zset) ==
    [k \in (DOMAIN store \ {key}) \cup (IF zset = {} THEN {} ELSE {key}) |->
        IF k = key THEN zset ELSE store[k]]

(* a public operation of an engine, run to its end over the store at the   *)
(* instant clock: the store it leaves and the values it can return         *)
EngineCall(engine, store, request, clock) ==
    LET orderZset == ZSetAt(store, engine.ordersKey)
        busyZset == ZSetAt(store, engine.busyTimesKey)
        currentTimeSeconds == ToSeconds(clock)
        cleanOrders == CleanOldOrders(orderZset, currentTimeSeconds)
        cleanBusyTimes == CleanOldBusyTimes(busyZset, currentTimeSeconds)
        prunedOrders == Put(store, engine.ordersKey, cleanOrders)
        prunedBusyTimes == Put(store, engine.busyTimesKey, cleanBusyTimes)
    IN  CASE request.op = "add" ->
               LET inputOrder == request.inputOrder
                   order ==
                       [orderId |-> inputOrder.orderId,
                        items |-> inputOrder.items,
                        totalAmountCents |-> inputOrder.totalAmountCents,
                        source |-> inputOrder.source,
                        orderTime |-> inputOrder.orderTime,
                        orderTimeSeconds |-> ToSeconds(inputOrder.orderTime),
                        currentTimeSeconds |-> currentTimeSeconds]
                   skip == \/ ~engine.engineRules.defined
                           \/ ~HasRules(engine.engineRules.rules)
                           \/ order.source # PERDIEM
                   pruned ==
                       Put(prunedOrders, engine.busyTimesKey,
                           CleanOldBusyTimes(
                               ZSetAt(prunedOrders, engine.busyTimesKey),
                               currentTimeSeconds))
                   stored ==
                       Put(pruned, engine.ordersKey,
                           AddOrder(ZSetAt(pruned, engine.ordersKey), order))
               IN  [store |->
                        IF skip THEN stored
                        ELSE Put(stored, engine.busyTimesKey,
                                 RuleLoop(engine.engineRules.rules, 1, order,
                                          ZSetAt(stored, engine.ordersKey),
                                          ZSetAt(stored, engine.busyTimesKey),
                                          engine.timeframeMode,
                                          engine.timeZone)),
                    results |-> {<<>>}]
          [] request.op = "getOrders" ->
               [store |-> prunedOrders,
                results |-> {{DecodeOrder(e.member) : e \in cleanOrders}}]
          [] request.op = "getBusyTimes" ->
               [store |-> prunedBusyTimes,
                results |-> SortedBusyTimes(cleanBusyTimes)]
          [] request.op = "getOrdersStats" ->
               [store |-> prunedOrders,
                results |->
                    SortedOrdersStats(cleanOrders, ToSeconds(request.startTime),
                                      ToSeconds(request.endTime))]
          [] request.op = "validateOrderTime" ->
               [store |-> prunedBusyTimes,
                results |->
                    {[waitPeriodSeconds |->
                          WaitSweep(sorted, 1, ToSeconds(request.orderTime), 0),
                      ordersInWindow |-> 0] :
                       sorted \in SortedBusyTimes(cleanBusyTimes)}]

BucketOrders ==
    {InputOrder("a", <<PizzaItem>>, 5, PERDIEM, StartMs + 60000),
     InputOrder("b", <<BurgerItem>>, 3, PERDIEM, StartMs + 120000)}

(* the calls made to an engine *)
BucketRequests ==
    {[op |-> "add", inputOrder |-> inputOrder] : inputOrder \in BucketOrders}
    \cup {[op |-> "getOrders"], [op |-> "getBusyTimes"],
          [op |-> "getOrdersStats", startTime |-> StartMs,
           endTime |-> StartMs + 120000],
          [op |-> "validateOrderTime", orderTime |-> StartMs + 60000]}

InitBuckets ==
    /\ now = StartMs
    /\ timeframeMode = BEFORE_ONLY
    /\ timeZone = UTC
    /\ engineRules = [defined |-> FALSE, rules |-> <<>>]
    /\ orders = {}
    /\ busyTimes = {}
    /\ adds = 0
    /\ last = Result("new")
    /\ calls = <<>>
    /\ engines = [bucket \in Buckets |-> NewEngine(bucket)]
    /\ redis = <<>>

(* setRules on the engine of a bucket *)
BucketSetRules(bucket, rules) ==
    /\ IF EngineRulesAccepts(rules)
       THEN /\ engines' =
                 [engines EXCEPT
                    ![bucket].engineRules = [defined |-> TRUE, rules |-> rules]]
            /\ last' = [bucket |-> bucket]
                        @@ [Result("setRules") EXCEPT !.result = rules]
       ELSE /\ engines' = engines
            /\ last' = [bucket |-> bucket]
                        @@ [Result("setRules") EXCEPT
                              !.threw = TRUE, !.result = rules,
                              !.message = EngineRulesError(rules)]
    /\ UNCHANGED <<now, timeframeMode, timeZone, engineRules, orders, busyTimes,
                   adds, calls, redis>>

(* a public operation on the engine of a bucket *)
BucketCall(bucket, request) ==
    LET done == EngineCall(engines[bucket], redis, request, now)
    IN  /\ request.op = "add" => adds < MaxAdds
        /\ adds' = IF request.op = "add" THEN adds + 1 ELSE adds
        /\ redis' = done.store
        /\ \E result \in done.results :
               last' = [bucket |-> bucket, request |-> request]
                       @@ [Result(request.op) EXCEPT !.result = result]
        /\ UNCHANGED <<now, timeframeMode, timeZone, engineRules, orders,
                       busyTimes, calls, engines>>

NextBuckets ==
    \/ Advance
    \/ \E bucket \in Buckets, rules \in {<<RuleEach>>, <<RuleNoFrame>>} :
          BucketSetRules(bucket, rules)
    \/ \E bucket \in Buckets, request \in BucketRequests :
          BucketCall(bucket, request)

SpecBuckets == InitBuckets /\ [][NextBuckets]_vars

----------------------------------------------------------------------------
(* Engines in other time zones.  The zones have no daylight saving time:   *)
(* America/Noronha is two hours behind UTC, Asia/Kolkata five and a half   *)
(* hours ahead.  The start instant is a Friday, 01:00 UTC: Thursday 23:00  *)
(* in Noronha, Friday 06:30 in Kolkata.                                    *)

Noronha == 0 - 120
Kolkata == 330

TimeZones == {UTC, Noronha, Kolkata}

RuleThursdayLate ==
    Rule("thursday", 2, 2, {}, {4}, Some(<<23, 0>>), None, Some(1), None, None)
RuleEarly ==
    Rule("early", 2, 3, {}, {}, None, Some(<<6, 30>>), Some(1), None, None)

ZoneRuleLists == {<<RuleFriday, RuleThursdayLate>>, <<RuleEarly, RuleFriday>>}

ZoneOrders ==
    {InputOrder("a", <<PizzaItem>>, 5, PERDIEM, time) : time \in OrderTimes}

(* new Engine({bucket, redis, timeZone}) *)
InitZones ==
    \E zone \in TimeZones :
        /\ now = StartMs
        /\ timeframeMode = BEFORE_ONLY
        /\ timeZone = zone
        /\ engineRules = [defined |-> FALSE, rules |-> <<>>]
        /\ orders = {}
        /\ busyTimes = {}
        /\ adds = 0
        /\ last = [Result("new") EXCEPT !.result = Some(zone)]
        /\ calls = <<>>
        /\ engines = <<>>
        /\ redis = <<>>

NextZones ==
    \/ \E rules \in ZoneRuleLists : SetRules(rules)
    \/ \E inputOrder \in ZoneOrders : Add(inputOrder)
    \/ GetBusyTimes

SpecZones == InitZones /\ [][NextZones]_vars

----------------------------------------------------------------------------
(* The end-to-end scenario of the tests: an engine in mode before_only     *)
(* with one rule (window 15 minutes, maxOrders 2) ingests an order at      *)
(* T - 5 min, one at T - 10 min and one at T, and is asked its busy times. *)

ScenarioOrders == 3

(* T: now, a minute either side of it, and an hour ahead as in the tests *)
ScenarioTimes ==
    {StartMs - 60000, StartMs, StartMs + 60000, StartMs + 3600 * 1000}

ScenarioRules ==
    {<<Rule("scenario", 15, busyTimeMinutes, {}, {}, None, None, Some(2), None,
            None)>> : busyTimeMinutes \in {1, 20}}

ScenarioOrder(orderId, orderTime) ==
    InputOrder(orderId, <<PizzaItem>>, 5, PERDIEM, orderTime)

InitScenario == Init /\ timeframeMode = BEFORE_ONLY

ScenarioSetRules ==
    /\ adds = 0 /\ ~engineRules.defined
    /\ \E rules \in ScenarioRules : SetRules(rules)

(* the filler order at T - 5 min, for some T *)
ScenarioFirstFiller ==
    /\ adds = 0 /\ engineRules.defined
    /\ \E T \in ScenarioTimes :
          AddUpTo(ScenarioOrder("filler-1", T - 5 * 60000), ScenarioOrders)

(* the filler order at T - 10 min *)
ScenarioSecondFiller ==
    /\ adds = 1
    /\ AddUpTo(ScenarioOrder("filler-2",
                             Val(last.order).orderTime - 5 * 60000),
               ScenarioOrders)

(* the triggering order at T *)
ScenarioTrigger ==
    /\ adds = 2
    /\ AddUpTo(ScenarioOrder("current",
                             Val(last.order).orderTime + 10 * 60000),
               ScenarioOrders)

ScenarioGetBusyTimes == adds = ScenarioOrders /\ GetBusyTimes

NextScenario ==
    \/ Advance
    \/ ScenarioSetRules
    \/ ScenarioFirstFiller
    \/ ScenarioSecondFiller
    \/ ScenarioTrigger
    \/ ScenarioGetBusyTimes

SpecScenario == InitScenario /\ [][NextScenario]_vars

----------------------------------------------------------------------------
(* validateOrderTime over stores of busy periods of every layout: touching, *)
(* apart, overlapping.  A busy period [start, end] is the one add writes    *)
(* for an order placed for the instant end, busyTimeSeconds = end - start   *)
(* after the clock at the latest; its score is the order time.              *)

SweepPeriods ==
    {<<100, 110>>, <<111, 120>>, <<130, 140>>, <<105, 115>>, <<121, 129>>,
     <<141, 150>>}

MaxPeriods == 3

StoredBusyTime(period) ==
    LET busyTime ==
            [startTime |-> SecondsToDate(StartSeconds + period[1]),
             endTime |-> SecondsToDate(StartSeconds + period[2]),
             orderTimeSeconds |-> StartSeconds + period[2],
             currentTimeSeconds |-> StartSeconds,
             busyTimeSeconds |-> period[2] - period[1],
             threshold |-> [type |-> "orders", value |-> 1, limit |-> 1,
                            categoryIds |-> {}],
             busyTimeContext |-> [totalAmountCents |-> 5, totalItems |-> 2,
                                  totalOrders |-> 1, categoryIds |-> {"pizza"}]]
    IN  [score |-> busyTime.orderTimeSeconds, member |-> EncodeBusyTime(busyTime)]

(* instants asked of validateOrderTime: before, at the start of, inside,   *)
(* and between the busy periods                                            *)
SweepInstants ==
    {SecondsToDate(StartSeconds + t) : t \in {95, 100, 105, 111, 125}}

InitSweep ==
    \E periods \in SUBSET SweepPeriods :
        /\ Cardinality(periods) <= MaxPeriods
        /\ now = StartMs
        /\ timeframeMode = BEFORE_ONLY
        /\ timeZone = UTC
        /\ engineRules = [defined |-> FALSE, rules |-> <<>>]
        /\ orders = {}
        /\ busyTimes = {StoredBusyTime(period) : period \in periods}
        /\ adds = 0
        /\ last = Result("new")
        /\ calls = <<>>
        /\ engines = <<>>
        /\ redis = <<>>

NextSweep ==
    \/ \E orderTime \in SweepInstants : ValidateOrderTime(orderTime)
    \/ GetBusyTimes

SpecSweep == InitSweep /\ [][NextSweep]_vars

----------------------------------------------------------------------------
(* The codec on its own: records of every shape are encoded and decoded    *)
(* again.                                                                  *)

CodecItems ==
    {Item("i1", categoryId, quantity, totalAmountCents) :
        categoryId \in {"pizza", "", Null}, quantity \in {0, 2},
        totalAmountCents \in {0, 4}}

CodecItemLists ==
    {<<>>} \cup {<<item>> : item \in CodecItems}
    \cup {<<PizzaItem, item>> : item \in CodecItems}

CodecOrders ==
    {[orderId |-> orderId, items |-> items,
      totalAmountCents |-> totalAmountCents, source |-> source,
      orderTime |-> orderTime, orderTimeSeconds |-> ToSeconds(orderTime),
      currentTimeSeconds |-> currentTimeSeconds] :
        orderId \in {"", "o1"}, items \in CodecItemLists,
        totalAmountCents \in {0, 5}, source \in OrderSource,
        orderTime \in {0, StartMs, StartMs + 500},
        currentTimeSeconds \in {0, StartSeconds}}

CodecBusyTimes ==
    {[startTime |-> startTime, endTime |-> startTime + busyTimeSeconds * 1000,
      orderTimeSeconds |-> ToSeconds(startTime),
      currentTimeSeconds |-> ToSeconds(startTime),
      busyTimeSeconds |-> busyTimeSeconds,
      busyTimeContext |->
          [totalAmountCents |-> total, totalItems |-> total,
           totalOrders |-> total, categoryIds |-> categoryIds],
      threshold |->
          [type |-> type, value |-> total, limit |-> total,
           categoryIds |-> categoryIds]] :
        startTime \in {0, StartMs, StartMs + 500}, busyTimeSeconds \in {0, 60},
        total \in {0, 2}, categoryIds \in {{}, {"pizza"}},
        type \in {"orders", "items", "amount"}}

(* a record is handed to the codec *)
InitCodec ==
    /\ now = StartMs
    /\ timeframeMode = BEFORE_ONLY
    /\ timeZone = UTC
    /\ engineRules = [defined |-> FALSE, rules |-> <<>>]
    /\ orders = {}
    /\ busyTimes = {}
    /\ adds = 0
    /\ \/ \E order \in CodecOrders :
             last = [kind |-> "order", input |-> order] @@ Result("new")
       \/ \E busyTime \in CodecBusyTimes :
             last = [kind |-> "busyTime", input |-> busyTime] @@ Result("new")
    /\ calls = <<>>
    /\ engines = <<>>
    /\ redis = <<>>

(* decodeOrder(encodeOrder(order)) *)
RoundTripOrder ==
    /\ last.op = "new" /\ last.kind = "order"
    /\ last' = [last EXCEPT
                  !.op = "decodeOrder",
                  !.result = DecodeOrder(EncodeOrder(last.input))]
    /\ UNCHANGED <<now, timeframeMode, timeZone, engineRules, orders, busyTimes,
                   adds, calls, engines, redis>>

(* decodeBusyTime(encodeBusyTime(busyTime)) *)
RoundTripBusyTime ==
    /\ last.op = "new" /\ last.kind = "busyTime"
    /\ last' = [last EXCEPT
                  !.op = "decodeBusyTime",
                  !.result = DecodeBusyTime(EncodeBusyTime(last.input))]
    /\ UNCHANGED <<now, timeframeMode, timeZone, engineRules, orders, busyTimes,
                   adds, calls, engines, redis>>

NextCodec == RoundTripOrder \/ RoundTripBusyTime

SpecCodec == InitCodec /\ [][NextCodec]_vars

----------------------------------------------------------------------------
(* the record the call wrote for rule k, from the orders its window query  *)
(* returned                                                                *)
WrittenFor(call, k) ==
    LET s == CHOOSE s \in call.seen : s.k = k
    IN  EncodeBusyTime(
            MakeBusyTime(call.rules[k], Val(call.order).orderTimeSeconds,
                         Val(call.order).currentTimeSeconds,
                         ThresholdCheck(call.rules[k], s.ordersInWindow)))

(* no other call ran while call i did *)
RanAlone(i) ==
    /\ ~calls[i].overlapped
    /\ \A j \in CallIds \ {i} :
          calls[j].pc = "idle" \/ calls[j].nth < calls[i].nth

(* call i was rejected at the write of a busy period *)
BusyWriteRejected(i) == calls[i].pc = "threw" /\ IsSet(calls[i].busyTime)

(* C23: when the store rejects the write of a triggered rule's busy period *)
(* add fails with the store's error: the call is over (no retry, no        *)
(* fallback to a normal return), the rejection removes nothing from the    *)
(* store, and the order and the busy periods the call wrote for earlier    *)
(* rules are still stored when no other call ran meanwhile.                *)
C23_RejectedBusyWriteKeepsEarlierWrites ==
    [][\A i \in CallIds :
          /\ IsSet(calls'[i].error) => calls'[i].pc = "threw"
          /\ calls[i].pc = "threw" => calls'[i] = calls[i]
          /\ (calls[i].pc = "addBusyTime" /\ IsSet(calls'[i].error)) =>
                /\ calls'[i].error = Some("store")
                /\ orders' = orders /\ busyTimes' = busyTimes
                /\ calls'[i].wrote = calls[i].wrote
                /\ RanAlone(i) =>
                      /\ \E e \in orders' :
                            e.member = EncodeOrder(Val(calls[i].order))
                      /\ \A k \in calls[i].wrote :
                            \E e \in busyTimes' :
                               e.member = WrittenFor(calls[i], k)]_vars

(* a call rejected at the busy period of its second rule: its order and    *)
(* the busy period of its first rule are stored, the rejected one is not   *)
C23_Witness ==
    \E i \in CallIds :
       /\ BusyWriteRejected(i)
       /\ calls[i].k = 2 /\ calls[i].wrote = {1}
       /\ \E e \in orders : e.member = EncodeOrder(Val(calls[i].order))
       /\ \E e \in busyTimes : e.member = WrittenFor(calls[i], 1)
       /\ ~\E e \in busyTimes :
              e.member = EncodeBusyTime(Val(calls[i].busyTime))

----------------------------------------------------------------------------
(* a call on the engine of bucket a has just been made *)
StepOf(a) == now' = now /\ last'.bucket = a

(* C24: buckets are independent.  A call on the engine of bucket a leaves  *)
(* both streams of every other bucket b as they were, and leaves what      *)
(* every call on b returns, and the streams it leaves to b, as they were   *)
(* before the call on a.                                                   *)
C24_BucketsIndependent ==
    [][\A a \in Buckets :
          StepOf(a) =>
             \A b \in Buckets \ {a} :
                /\ ZSetAt(redis', engines[b].ordersKey)
                      = ZSetAt(redis, engines[b].ordersKey)
                /\ ZSetAt(redis', engines[b].busyTimesKey)
                      = ZSetAt(redis, engines[b].busyTimesKey)
                /\ engines'[b] = engines[b]
                /\ \A request \in BucketRequests :
                      LET after == EngineCall(engines[b], redis', request, now)
                          before == EngineCall(engines[b], redis, request, now)
                      IN  /\ after.results = before.results
                          /\ ZSetAt(after.store, engines[b].ordersKey)
                                = ZSetAt(before.store, engines[b].ordersKey)
                          /\ ZSetAt(after.store, engines[b].busyTimesKey)
                                = ZSetAt(before.store, engines[b].busyTimesKey)]_vars

(* both buckets hold an order and a busy period, not the same ones, and     *)
(* getOrders on one returned its own order only                             *)
C24_Witness ==
    /\ last.op = "getOrders"
    /\ \E a, b \in Buckets :
          /\ a # b /\ last.bucket = a
          /\ ZSetAt(redis, engines[a].ordersKey) # {}
          /\ ZSetAt(redis, engines[b].ordersKey) # {}
          /\ ZSetAt(redis, engines[a].busyTimesKey) # {}
          /\ ZSetAt(redis, engines[b].busyTimesKey) # {}
          /\ ZSetAt(redis, engines[a].ordersKey)
                # ZSetAt(redis, engines[b].ordersKey)
          /\ last.result =
                {DecodeOrder(e.member) :
                   e \in ZSetAt(redis, engines[a].ordersKey)}

----------------------------------------------------------------------------
(* C25: the codec is lossless.  Decoding an encoded order gives the order  *)
(* back and decoding an encoded busy period gives the busy period back,    *)
(* field by field, for records with zero values, no items, an item without *)
(* a categoryId (null), no categoryIds and either source.                  *)
C25_CodecLossless ==
    last.op \in {"decodeOrder", "decodeBusyTime"} => last.result = last.input

----------------------------------------------------------------------------
GetOrdersStatsStep == last'.op = "getOrdersStats" /\ now' = now

(* the entry of a stored order, read off its stored record *)
StatOf(e) ==
    [orderId |-> e.member.id, orderTime |-> e.member.ot * 1000,
     source |-> IF e.member.s = "P" THEN PERDIEM ELSE OTHER_CHANNEL]

(* the stored orders a getOrdersStats over [lo, hi] at the instant now is   *)
(* to report: in the range and not at or past the retention age            *)
InRangeUnexpired(lo, hi) ==
    {e \in orders :
       /\ e.score > ToSeconds(now) - ORDERS_RETENTION_SECONDS
       /\ e.score >= lo /\ e.score <= hi}

(* C26: getOrdersStats(start, end) returns one entry {orderId, orderTime,  *)
(* source} for exactly the stored unexpired orders, of either source, with *)
(* score in [toSeconds(start), toSeconds(end)], bounds included, sorted by *)
(* orderTime ascending, and writes neither an order nor a busy period.     *)
(* Unexpired is: not removed by the prune at this call, score > now - 7d.  *)
C26_OrdersStatsOfRange ==
    [][GetOrdersStatsStep =>
         LET result == last'.result
             expected == InRangeUnexpired(last'.t, last'.wait)
         IN  /\ Len(result) = Cardinality(expected)
             /\ \A k \in DOMAIN result : \E e \in expected : result[k] = StatOf(e)
             /\ \A e \in expected :
                   Cardinality({k \in DOMAIN result : result[k] = StatOf(e)})
                      = Cardinality({f \in expected : StatOf(f) = StatOf(e)})
             /\ \A j, k \in DOMAIN result :
                   j < k => ToSeconds(result[j].orderTime)
                               <= ToSeconds(result[k].orderTime)
             /\ orders' \subseteq orders
             /\ busyTimes' = busyTimes]_vars

(* two orders reported, one of each source, the earlier one first and right *)
(* on the lower bound of the range                                          *)
C26_Witness ==
    /\ last.op = "getOrdersStats"
    /\ Len(last.result) = 2
    /\ last.result[1].source # last.result[2].source
    /\ ToSeconds(last.result[1].orderTime) = last.t
    /\ last.result[1].orderTime < last.result[2].orderTime

----------------------------------------------------------------------------
(* the day of the week and the minute of the day of an instant on the      *)
(* clocks of the engine's time zone                                        *)
LocalDay(time) == (((time + timeZone * 60000) \div 86400000) + 4) % 7
LocalMinuteOfDay(time) == ((time + timeZone * 60000) \div 60000) % 1440

AppliesTo(rule, time) ==
    /\ rule.weekDays = {} \/ LocalDay(time) \in rule.weekDays
    /\ ~IsSet(rule.startTime)
          \/ LocalMinuteOfDay(time)
                >= Val(rule.startTime)[1] * 60 + Val(rule.startTime)[2]
    /\ ~IsSet(rule.endTime)
          \/ LocalMinuteOfDay(time)
                <= Val(rule.endTime)[1] * 60 + Val(rule.endTime)[2]

(* C27: a rule applies to an order iff, on the clocks of the bucket's time *)
(* zone, the day of the order time is one of weekDays (or weekDays is      *)
(* empty), its minute of the day is not before startTime (if set) and not  *)
(* after endTime (if set); a rule that does not apply queries no window    *)
(* and writes no busy period for the order.                                *)
C27_RuleAppliesInLocalTime ==
    [][(AddStep /\ last'.trace # <<>>) =>
         LET trace == last'.trace
             order == Val(last'.order)
         IN  /\ \A k \in DOMAIN trace :
                   /\ trace[k].applies
                         <=> AppliesTo(engineRules.rules[k], order.orderTime)
                   /\ ~trace[k].applies =>
                         /\ trace[k].timeWindow = None
                         /\ trace[k].busyTime = None
             /\ \A e \in busyTimes' \ busyTimes :
                   \E k \in DOMAIN trace :
                      /\ AppliesTo(engineRules.rules[k], order.orderTime)
                      /\ IsSet(trace[k].busyTime)
                      /\ e.member = EncodeBusyTime(Val(trace[k].busyTime))]_vars

(* away from UTC, an add for which one rule did not apply and another      *)
(* applied and wrote its busy period                                       *)
C27_Witness ==
    /\ last.op = "add"
    /\ timeZone # UTC
    /\ \E j, k \in DOMAIN last.trace :
          /\ ~last.trace[j].applies
          /\ last.trace[k].applies /\ IsSet(last.trace[k].busyTime)
          /\ \E e \in busyTimes :
                e.member = EncodeBusyTime(Val(last.trace[k].busyTime))

----------------------------------------------------------------------------
(* C28: in mode before_only with the single rule (window 15 minutes,       *)
(* maxOrders 2), after own-channel orders at T - 5 min, T - 10 min and T   *)
(* were added in that order, getBusyTimes returns exactly one entry, whose *)
(* busyTimeSeconds is busyTimeMinutes * 60.                                *)
C28_ScenarioOneBusyPeriod ==
    (last.op = "getBusyTimes" /\ adds = ScenarioOrders) =>
       /\ Len(last.result) = 1
       /\ last.result[1].busyTimeSeconds
             = engineRules.rules[1].busyTimeMinutes * 60

----------------------------------------------------------------------------
(* the busy periods validateOrderTime swept, in seconds *)
SweptStart(k) == ToSeconds(last.result[k].startTime)
SweptEnd(k) == ToSeconds(last.result[k].endTime)

(* the last period of the longest run from the first period on in which    *)
(* each period starts one second after the previous one ends               *)
RunEnd ==
    CHOOSE m \in 1..Len(last.result) :
       /\ \A k \in 1..(m - 1) : SweptStart(k + 1) = SweptEnd(k) + 1
       /\ m = Len(last.result) \/ SweptStart(m + 1) # SweptEnd(m) + 1

(* C29: validateOrderTime chains through adjacent busy periods and stops   *)
(* at the first gap.  For busy periods sorted by start, none overlapping   *)
(* another, and the instant t inside the first, the wait is the end of the *)
(* last period of the run of adjacent periods, plus one, minus t; periods  *)
(* after a gap add nothing.                                                *)
C29_WaitChainsThroughAdjacentPeriods ==
    (/\ last.op = "validateOrderTime"
     /\ Len(last.result) >= 1
     /\ \A j, k \in DOMAIN last.result : j < k => SweptEnd(j) < SweptStart(k)
     /\ SweptStart(1) <= last.t /\ last.t <= SweptEnd(1))
       => last.wait = SweptEnd(RunEnd) + 1 - last.t

(* the periods [100,110], [111,120], [130,140] and the instant 100, counted *)
(* from the start instant: the wait is 21                                   *)
C29_Witness ==
    /\ last.op = "validateOrderTime"
    /\ Len(last.result) = 3
    /\ <<SweptStart(1), SweptEnd(1)>> = <<StartSeconds + 100, StartSeconds + 110>>
    /\ <<SweptStart(2), SweptEnd(2)>> = <<StartSeconds + 111, StartSeconds + 120>>
    /\ <<SweptStart(3), SweptEnd(3)>> = <<StartSeconds + 130, StartSeconds + 140>>
    /\ last.t = StartSeconds + 100
    /\ last.wait = 21

(* the cumulative wait after the sweep has looked at the first k periods *)
WaitAfter(k) == WaitSweep(SubSeq(last.result, 1, k), 1, last.t, 0)

(* the sweep takes period k in: it took in every period before it and the  *)
(* instant moved by the wait so far falls inside period k                   *)
Absorbed(k) ==
    \A j \in 1..k :
       /\ SweptStart(j) <= last.t + WaitAfter(j - 1)
       /\ last.t + WaitAfter(j - 1) <= SweptEnd(j)

(* C30: the wait validateOrderTime returns is never negative, and during   *)
(* the sweep the cumulative wait is set from the original instant (the end *)
(* of the period plus one minus t) and grows strictly each time a busy     *)
(* period is taken in; it stays as it is otherwise.                        *)
C30_WaitNeverNegativeAndGrowing ==
    last.op = "validateOrderTime" =>
       /\ last.wait >= 0
       /\ last.wait = WaitAfter(Len(last.result))
       /\ \A k \in DOMAIN last.result :
             IF Absorbed(k)
             THEN /\ WaitAfter(k) = SweptEnd(k) + 1 - last.t
                  /\ WaitAfter(k) > WaitAfter(k - 1)
             ELSE WaitAfter(k) = WaitAfter(k - 1)

(* a sweep that took in two busy periods that overlap *)
C30_Witness ==
    /\ last.op = "validateOrderTime"
    /\ Len(last.result) >= 2
    /\ Absorbed(2)
    /\ SweptStart(2) <= SweptEnd(1)
    /\ last.wait = SweptEnd(2) + 1 - last.t

----------------------------------------------------------------------------
(* The context of a busy period, against the stored orders of the window   *)

WindowAmount(k) ==
    SumOver([e \in OwnChannelInWindow(k) |-> e.member.t], OwnChannelInWindow(k))

WindowItems(k) ==
    SumOver([e \in OwnChannelInWindow(k) |->
               SumOver([i \in DOMAIN e.member.is |-> e.member.is[i].q],
                       DOMAIN e.member.is)],
            OwnChannelInWindow(k))

WindowCategories(k) ==
    UNION {{e.member.is[i].c : i \in DOMAIN e.member.is} \ {""} :
             e \in OwnChannelInWindow(k)}

(* the context total that goes with a threshold type *)
ContextTotal(context, type) ==
    CASE type = "orders" -> context.totalOrders
      [] type = "items" -> context.totalItems
      [] type = "amount" -> context.totalAmountCents

(* C31: the context stored with a busy period holds the totals over all    *)
(* own-channel orders of the rule's window (their number, their items,     *)
(* their cents, the union of their categories), whichever threshold fired  *)
(* and whether or not the rule has categories; the value of the threshold  *)
(* is never more than the context total of its type.                       *)
C31_ContextHoldsAllOrdersAggregates ==
    RanRules =>
        \A k \in DOMAIN last.trace :
            IsSet(StepAt(k).busyTime) =>
                \E e \in busyTimes :
                    /\ e.member = EncodeBusyTime(Val(StepAt(k).busyTime))
                    /\ LET stored == DecodeBusyTime(e.member)
                           context == stored.busyTimeContext
                       IN  /\ context.totalOrders
                                = Cardinality(OwnChannelInWindow(k))
                           /\ context.totalItems = WindowItems(k)
                           /\ context.totalAmountCents = WindowAmount(k)
                           /\ context.categoryIds = WindowCategories(k)
                           /\ stored.threshold.value
                                <= ContextTotal(context, stored.threshold.type)

(* C31 witness: a rule with categories wrote a busy period whose threshold *)
(* value is smaller than the context total of the same type.               *)
C31_Witness ==
    /\ RanRules
    /\ \E k \in DOMAIN last.trace :
          /\ RuleAt(k).categoryIds # {}
          /\ WroteBusyTime(k)
          /\ LET busyTime == Val(StepAt(k).busyTime)
             IN  busyTime.threshold.value
                   < ContextTotal(busyTime.busyTimeContext,
                                  busyTime.threshold.type)

(* C32: when add, getOrders or getOrdersStats, called at time now, is      *)
(* done, the orders stream holds no order scored before now - 604800 s,    *)
(* the order an add has just stored included.                              *)
C32_NoExpiredOrderAfterPrune ==
    [][OrdersPruneStep =>
          \A e \in orders' :
              e.score >= ToSeconds(now) - ORDERS_RETENTION_SECONDS]_vars

----------------------------------------------------------------------------
(* One add call that ran with no other call in flight, after it returned   *)

ReturnedAlone(i) == calls[i].pc = "return" /\ RanAlone(i)

(* the rule lists that hold the rules of a list in some order *)
Permuted(rules) ==
    {[k \in DOMAIN rules |-> rules[p[k]]] : p \in Permutations(DOMAIN rules)}

(* the busy-period records call i sent to the store *)
WrittenBy(i) ==
    {[score |-> Val(calls[i].order).orderTimeSeconds,
      member |-> WrittenFor(calls[i], k)] : k \in calls[i].wrote}

(* C33: within one add call that ran alone the reply to a window query is  *)
(* a function of the mode, the rule's time frame and the order time: it is *)
(* the set of own-channel orders stored in that window, so rules of equal  *)
(* time frame saw the same orders; a rule wrote a busy period iff it does  *)
(* so as the only rule of the rule set; and the rules in any other order   *)
(* write the same set of busy periods.                                     *)
C33_WindowQueryPureWithinOneAdd ==
    \A i \in CallIds :
       (ReturnedAlone(i) /\ calls[i].rules # <<>>) =>
          LET call == calls[i]
              order == Val(call.order)
          IN  /\ \A s \in call.seen :
                    s.ordersInWindow
                      = GetOrdersInWindow(
                            orders,
                            CalculateTimeWindow(
                                order.orderTimeSeconds,
                                call.rules[s.k].timeFrameMinutes * 60,
                                timeframeMode))
              /\ \A s, t \in call.seen :
                    call.rules[s.k].timeFrameMinutes
                       = call.rules[t.k].timeFrameMinutes
                    => s.ordersInWindow = t.ordersInWindow
              /\ \A k \in DOMAIN call.rules :
                    (k \in call.wrote)
                      <=> RuleLoop(<<call.rules[k]>>, 1, order, orders, {},
                                   timeframeMode, timeZone) # {}
              /\ \A rules \in Permuted(call.rules) :
                    RuleLoop(rules, 1, order, orders, {}, timeframeMode,
                             timeZone) = WrittenBy(i)

(* C33 witness: the second of two calls ran alone under two rules of equal *)
(* time frame, found two orders in the window of either and wrote a busy   *)
(* period for both.                                                        *)
C33_Witness ==
    \E i \in CallIds :
       /\ ReturnedAlone(i)
       /\ calls[i].nth = 2
       /\ Len(calls[i].rules) = 2
       /\ calls[i].wrote = {1, 2}
       /\ \A s \in calls[i].seen : Cardinality(s.ordersInWindow) = 2
       /\ Cardinality(WrittenBy(i)) = 2

----------------------------------------------------------------------------
(* C34: in every mode the window of an ingested order holds the order's    *)
(* own score, and the order is in the stream when the window is queried:   *)
(* every rule that applies sees the ingested own-channel order, a rule     *)
(* that applies with maxOrders = 1 and no categories writes a busy period  *)
(* on the orders threshold, and every stored busy period counts at least   *)
(* one order in its context.                                               *)
C34_IngestedOrderAlwaysCounted ==
    [][/\ (AddStep /\ last'.trace # <<>>) =>
             LET order == Val(last'.order)
             IN  \A k \in DOMAIN last'.trace :
                    last'.trace[k].applies =>
                       /\ Val(last'.trace[k].timeWindow).start
                             <= order.orderTimeSeconds
                       /\ order.orderTimeSeconds
                             <= Val(last'.trace[k].timeWindow).end
                       /\ \E e \in orders' :
                             /\ e.member = EncodeOrder(order)
                             /\ DecodeOrder(e.member)
                                   \in last'.trace[k].ordersInWindow
                       /\ (engineRules.rules[k].maxOrders = Some(1)
                             /\ engineRules.rules[k].categoryIds = {})
                          => /\ IsSet(last'.trace[k].busyTime)
                             /\ Val(last'.trace[k].busyTime).threshold.type
                                  = "orders"
                             /\ \E e \in busyTimes' :
                                   e.member
                                     = EncodeBusyTime(
                                          Val(last'.trace[k].busyTime))
       /\ \A e \in busyTimes' : e.member.btc.to >= 1]_vars

(* C34 witness: add of an own-channel order that was older than the        *)
(* retention when it was ingested, with nothing else in its window, wrote  *)
(* a busy period for a rule with maxOrders = 1.                            *)
C34_Witness ==
    /\ RanRules
    /\ LastOrder.orderTimeSeconds
          < LastOrder.currentTimeSeconds - ORDERS_RETENTION_SECONDS
    /\ \E k \in DOMAIN last.trace :
          /\ RuleAt(k).maxOrders = Some(1)
          /\ RuleAt(k).categoryIds = {}
          /\ WroteBusyTime(k)
          /\ Val(StepAt(k).busyTime).busyTimeContext.totalOrders = 1

----------------------------------------------------------------------------
(* C35: add of an other-channel order stores the order under its order     *)
(* time in seconds and writes no busy period, whatever the rules in effect *)
(* and the own-channel orders of their windows: the rule loop is not       *)
(* entered and the busy-period stream is what the call's prune left.       *)
C35_OtherChannelAddWritesNoBusyPeriod ==
    [][(AddStep /\ Val(last'.order).source = OTHER_CHANNEL)
          => /\ [score |-> ToSeconds(Val(last'.order).orderTime),
                 member |-> EncodeOrder(Val(last'.order))] \in orders'
             /\ busyTimes' = PrunedBusyTimes
             /\ last'.trace = <<>>]_vars

(* C35 witness: an other-channel order was added under a rule whose limit  *)
(* the own-channel orders of its window meet, and no busy period is        *)
(* stored.                                                                 *)
C35_Witness ==
    /\ last.op = "add"
    /\ LastOrder.source = OTHER_CHANNEL
    /\ \E e \in orders : e.member = EncodeOrder(LastOrder)
    /\ engineRules.defined
    /\ \E k \in DOMAIN engineRules.rules :
          IsSet(RuleStep(RuleAt(k), LastOrder, orders, timeframeMode,
                         timeZone).busyTime)
    /\ busyTimes = {}

----------------------------------------------------------------------------
(* C36: every stored busy period has a threshold of type orders, items or  *)
(* amount with a limit above zero and a value that is at least the limit.  *)
C36_StoredThresholdIsMet ==
    \A e \in busyTimes :
        LET threshold == DecodeBusyTime(e.member).threshold
        IN  /\ threshold.type \in {"orders", "items", "amount"}
            /\ threshold.limit > 0
            /\ threshold.value >= threshold.limit

(* C36 witness: the store holds a busy period whose value is its limit and *)
(* one whose value is above its limit.                                     *)
C36_Witness ==
    /\ \E e \in busyTimes : e.member.t.v = e.member.t.l
    /\ \E e \in busyTimes : e.member.t.v > e.member.t.l

----------------------------------------------------------------------------
(* no record is changed where it is stored: a member that is in the stream *)
(* before and after a step has the score it had                            *)
KeptAsIs(before, after) ==
    \A e \in before, f \in after : f.member = e.member => f.score = e.score

(* C37: add at time now removes no order scored after now - 604800 s and   *)
(* no busy period scored after now.  The orders stream after add is the    *)
(* unexpired part of the stream before plus the ingested order, the        *)
(* busy-period stream is its unexpired part plus the busy periods of the   *)
(* triggered rules, and no step changes a record that stays stored.        *)
C37_AddKeepsUnexpiredRecords ==
    [][/\ AddStep =>
            LET order == Val(last'.order)
            IN  /\ orders'
                     = {e \in orders :
                          e.score > ToSeconds(now) - ORDERS_RETENTION_SECONDS}
                       \cup {[score |-> ToSeconds(order.orderTime),
                              member |-> EncodeOrder(order)]}
                /\ busyTimes'
                     = {e \in busyTimes : e.score > ToSeconds(now)}
                       \cup {[score |-> ToSeconds(order.orderTime),
                              member |->
                                  EncodeBusyTime(Val(last'.trace[k].busyTime))] :
                               k \in TriggeredRules(last'.trace)}
       /\ KeptAsIs(orders, orders')
       /\ KeptAsIs(busyTimes, busyTimes')]_vars

(* C37 witness: the second add found an order and a busy period of the     *)
(* first one, made at an earlier time, kept both and wrote a busy period   *)
(* of its own.                                                             *)
C37_Witness ==
    /\ RanRules
    /\ adds = 2
    /\ Cardinality(orders) = 2
    /\ \E e \in busyTimes :
          e.member.cts < LastOrder.currentTimeSeconds
    /\ \E k \in DOMAIN last.trace : WroteBusyTime(k)

----------------------------------------------------------------------------
(* the calls that read the busy-period stream, and those that read the     *)
(* orders stream                                                           *)
BusyTimesQueryStep ==
    last'.op \in {"getBusyTimes", "validateOrderTime"} /\ now' = now

OrdersQueryStep == last'.op \in {"getOrders", "getOrdersStats"} /\ now' = now

(* C38: getBusyTimes and validateOrderTime leave the orders stream as it   *)
(* is, getOrders and getOrdersStats leave the busy-period stream as it is, *)
(* and none of the four adds a record: the stream a call reads can only    *)
(* lose records.                                                           *)
C38_QueriesLeaveOtherStream ==
    [][/\ BusyTimesQueryStep =>
            (orders' = orders /\ busyTimes' \subseteq busyTimes)
       /\ OrdersQueryStep =>
            (busyTimes' = busyTimes /\ orders' \subseteq orders)]_vars

(* C38 witness: getOrders returned orders while the busy-period stream     *)
(* held a period that a prune of that stream at the same time removes.     *)
C38_Witness ==
    /\ last.op = "getOrders"
    /\ last.result # {}
    /\ \E e \in busyTimes : e.score <= ToSeconds(now)

----------------------------------------------------------------------------
(* a call that prunes the busy-period stream: getBusyTimes, add, or        *)
(* validateOrderTime through getBusyTimes                                  *)
BusyTimesPruneStep ==
    last'.op \in {"getBusyTimes", "validateOrderTime", "add"} /\ now' = now

(* C39: every stored record expires.  A stored order scored s is gone once *)
(* a call has pruned the orders at a time now >= s + 604800 s, and a busy  *)
(* period is gone once getBusyTimes or add has run at a time now >= its    *)
(* endTime.  While the clock keeps advancing and the pruning calls keep    *)
(* being made, the two streams are empty from some time on after the last  *)
(* add, and from then on validateOrderTime returns 0 for every instant.    *)
C39_EveryRecordExpires ==
    /\ [][/\ OrdersPruneStep =>
               \A e \in orders :
                  (/\ ToSeconds(now) >= e.score + ORDERS_RETENTION_SECONDS
                   /\ e.member \notin IngestedBy(last'))
                    => \A f \in orders' : f.member # e.member
          /\ BusyTimesPruneStep =>
               \A e \in busyTimes :
                  ToSeconds(now) >= EndOf(e)
                    => \A f \in busyTimes' : f.member # e.member]_vars
    /\ <>[](orders = {} /\ busyTimes = {})
    /\ <>[](last.op = "validateOrderTime" => last.wait = 0)

(* C39 witness: after a burst of two adds and the retention,               *)
(* validateOrderTime pruned the last busy period and returned 0, and the   *)
(* orders are gone too.                                                    *)
C39_Witness ==
    /\ adds = 2
    /\ now >= ExpiredMs
    /\ last.op = "validateOrderTime"
    /\ last.pruned # {}
    /\ last.wait = 0
    /\ orders = {}
    /\ busyTimes = {}

====
